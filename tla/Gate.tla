-------------------------------- MODULE Gate --------------------------------
(***************************************************************************)
(* moiras/harness.py and moiras/__main__.py: the release gate.  run_gate   *)
(* supervises one synthetic scenario after the other and counts, to_dict   *)
(* sanitizes the report, and the command line writes it to a file when it  *)
(* is asked to, prints it and exits.  What print does depends on what      *)
(* standard output is; what it put into the stream's buffer is written     *)
(* when the interpreter shuts down, after main has returned.               *)
(*                                                                         *)
(* The command line always runs SCENARIOS; here it is given any suite,     *)
(* since what matters is what it would do if one of them failed.           *)
(***************************************************************************)
EXTENDS Supervision, Sanitize

CONSTANTS SECURITY, INTEGRITY, GOVERNANCE, OPERATIONS,
          NotAScenario,
          Suites,       \* what run_gate is called with; None is no sequence
          Stale, Torn   \* a file: of an earlier run, and not completely written

VARIABLES suite, json,  \* the arguments: the scenarios, and is a file wanted?
          stdout,       \* what standard output is
          phase,        \* where the program stands
          results,      \* the ScenarioResults so far
          report,       \* the GateResult, or None
          disk,         \* what the file holds: None, Stale, Torn or the report
          held,         \* does the buffer of standard output hold the report?
          shown,        \* what got out there: None, Torn or the report
          status        \* the exit status as it stands, or None

vars == <<suite, json, stdout, phase, results, report, disk, held, shown, status>>

(* None at all (its descriptor is closed, sys.stdout is None), a pipe or a *)
(* file (a buffer written at the end), a terminal (a buffer written at     *)
(* each line), or unbuffered (python -u).                                  *)
Outputs == {"missing", "block", "line", "unbuffered"}

Scenarios == (UNION {Range(x) : x \in Suites \ {None}}) \ {NotAScenario}

ScenarioResults == [scenario : {s.name : s \in Scenarios}, passed : BOOLEAN]

GateResults == [passed : Nat, failed : Nat, total : Nat, success : BOOLEAN,
                scenarios : Seq(ScenarioResults)]

(* Scenario validates its name; supervise is not given what is no action.  *)
ASSUME GateAssumption ==
    /\ Roles = {SECURITY, INTEGRITY, GOVERNANCE, OPERATIONS}
    /\ SECURITY \notin {INTEGRITY, GOVERNANCE, OPERATIONS}
    /\ INTEGRITY \notin {GOVERNANCE, OPERATIONS} /\ GOVERNANCE # OPERATIONS
    /\ NotAnOpinion \notin CouncilOpinions
    /\ Raised \notin CouncilDecisions \cup ShadowReports \cup SentinelResults \cup {None}
    /\ None \notin Seq(ExecutionSnapshots \cup {None}) \cup Int
    /\ None \notin SentinelResults \cup SentinelClasses
    /\ \A x \in Suites \ {None} : x \in Seq(Scenarios \cup {NotAScenario})
    /\ \A s \in Scenarios : ValidateId(s.name) /\ s.action \in ActionRequests
    /\ Stale \notin GateResults \cup {None, Torn} /\ Torn # None
    /\ None \notin GateResults

-----------------------------------------------------------------------------
(* The scenarios.                                                          *)

Action(type) ==
    [type |-> type, environment |-> "DISPOSABLE", reversibility |-> "REVERSIBLE",
     scope |-> "SINGLE", sensitive |-> FALSE, external |-> FALSE]

Opinion(role) == [role |-> role, class |-> "FRONTIER", score |-> 10, veto |-> FALSE]

Panel == <<Opinion(SECURITY), Opinion(INTEGRITY), Opinion(GOVERNANCE), Opinion(OPERATIONS)>>

Snapshot(offset) ==
    [attempt |-> 1, utc |-> 0, offset |-> offset, progress |-> 1, activity |-> 1,
     artifact |-> 0, authorization |-> FALSE, credential |-> FALSE, blocked |-> FALSE,
     terminal |-> FALSE]

(* All that the names of SCENARIOS have in common is that they are ids.    *)
Scenario(action, opinions, verdict) ==
    [name |-> <<"w">>, action |-> action, opinions |-> opinions, extras |-> Plain,
     verdict |-> verdict, recommendation |-> Recommendation[verdict], sentinel |-> None]

Low == Action("CREATE_TEMP_FILE")
Broad(type) == [Action(type) EXCEPT !.reversibility = "IRREVERSIBLE", !.scope = "BROAD"]

Observed(second, class) ==
    [Scenario(Low, Panel, "SHADOW_AUTOAPPROVE_CANDIDATE") EXCEPT
        !.extras = [Plain EXCEPT !.snapshots = <<Snapshot(10), second>>, !.threshold = 300],
        !.sentinel = class]

SCENARIOS == <<
    Scenario(Low, Panel, "SHADOW_AUTOAPPROVE_CANDIDATE"),
    Scenario([Low EXCEPT !.environment = "DEVELOPMENT"], Panel, "HUMAN_REQUIRED"),
    Scenario(Action("REQUEST_SUDO"), Panel, "STOP_AND_HUMAN"),
    Scenario(Broad("DATABASE_DROP"), Panel, "STOP_AND_HUMAN"),
    Scenario(Broad("DELETE_BROAD_PATH"), Panel, "STOP_AND_HUMAN"),
    Scenario(Low, [k \in 1..4 |-> [Panel[k] EXCEPT !.class = "EDGE"]], "HUMAN_REQUIRED"),
    Scenario(Low, [Panel EXCEPT ![1].veto = TRUE], "HUMAN_REQUIRED"),
    Scenario(Low, [Panel EXCEPT ![4].score = 50], "HUMAN_REQUIRED"),
    Observed([Snapshot(20) EXCEPT !.progress = 2, !.activity = 2], "REAL_PROGRESS"),
    Observed(Snapshot(350), "PROBABLE_INACTIVITY"),
    Observed([Snapshot(350) EXCEPT !.authorization = TRUE], "LEGITIMATE_WAIT"),
    Observed([Snapshot(350) EXCEPT !.credential = TRUE], "LEGITIMATE_WAIT") >>

(* What is no scenario is none of these, and what is no sequence not this. *)
ASSUME ShippedAssumption == NotAScenario \notin Range(SCENARIOS) /\ None # SCENARIOS

-----------------------------------------------------------------------------
(* run_gate.                                                               *)

Init ==
    /\ suite \in Suites /\ json \in BOOLEAN /\ stdout \in Outputs
    /\ phase = "called" /\ results = <<>> /\ report = None
    /\ disk \in {None, Stale} /\ held = FALSE /\ shown = None /\ status = None

(* An exception leaves main: all that is left to do is to shut down.       *)
Traceback == phase' = "closing" /\ status' = 1

(* No sequence raises TypeError, an empty one ValueError.                  *)
Refuse ==
    /\ phase = "called" /\ suite \in {None, <<>>}
    /\ Traceback
    /\ UNCHANGED <<suite, json, stdout, results, report, disk, held, shown>>

Start ==
    /\ phase = "called" /\ suite \notin {None, <<>>}
    /\ phase' = "running"
    /\ UNCHANGED <<suite, json, stdout, results, report, disk, held, shown, status>>

(* Mutant: a scenario that raises has no result.                           *)
PassedOrNone(s) ==
    LET r == Supervise(s.action, s.opinions, s.extras)
    IN  IF r = Raised THEN None ELSE r.decision.verdict = s.verdict

(* Mutant: what the Sentinel said is not compared.                         *)
PassedUnwatched(s) ==
    LET r == Supervise(s.action, s.opinions, s.extras)
    IN  /\ r # Raised
        /\ r.decision.verdict = s.verdict
        /\ r.recommendation = s.recommendation

(* An exception is a failure.  Every report says that nothing was executed *)
(* and that it is of shadow mode: its constructor sees to that.            *)
Passed(s) ==
    LET r == Supervise(s.action, s.opinions, s.extras)
    IN  /\ r # Raised
        /\ r.decision.verdict = s.verdict
        /\ r.recommendation = s.recommendation
        /\ ClassOf(r.sentinel) = s.sentinel

Current == suite[Len(results) + 1]

RunScenario ==
    /\ phase = "running" /\ Len(results) < Len(suite) /\ Current # NotAScenario
    /\ results' = Append(results, [scenario |-> Current.name, passed |-> Passed(Current)])
    /\ UNCHANGED <<suite, json, stdout, phase, report, disk, held, shown, status>>

(* Something that is no Scenario ends the run, and its results are lost.   *)
NoScenario ==
    /\ phase = "running" /\ Len(results) < Len(suite) /\ Current = NotAScenario
    /\ Traceback
    /\ UNCHANGED <<suite, json, stdout, results, report, disk, held, shown>>

GateResult(rs) ==
    LET passed == Cardinality({k \in DOMAIN rs : rs[k].passed})
    IN  [passed |-> passed, failed |-> Len(rs) - passed, total |-> Len(rs),
         success |-> passed = Len(rs), scenarios |-> rs]

Count ==
    /\ phase = "running" /\ Len(results) = Len(suite)
    /\ report' = GateResult(results)
    /\ phase' = "counted"
    /\ UNCHANGED <<suite, json, stdout, results, disk, held, shown, status>>

-----------------------------------------------------------------------------
(* The command line.                                                       *)

Publishable == SanitizeValue({report.scenarios[k].scenario : k \in DOMAIN report.scenarios})

(* A name may be an id and yet look like a secret: the report is refused.  *)
SerializeFails ==
    /\ phase = "counted" /\ ~Publishable
    /\ Traceback
    /\ UNCHANGED <<suite, json, stdout, results, report, disk, held, shown>>

Serialize ==
    /\ phase = "counted" /\ Publishable
    /\ phase' = IF json THEN "writing" ELSE "printing"
    /\ UNCHANGED <<suite, json, stdout, results, report, disk, held, shown, status>>

Write ==
    /\ phase = "writing"
    /\ disk' = report
    /\ phase' = "printing"
    /\ UNCHANGED <<suite, json, stdout, results, report, held, shown, status>>

(* The file cannot be opened, or not be written, or not be closed: then    *)
(* nothing is printed either.                                              *)
WriteFails ==
    /\ phase = "writing"
    /\ disk' \in {disk, Torn, report}
    /\ Traceback
    /\ UNCHANGED <<suite, json, stdout, results, report, held, shown>>

(* Without a standard output, print does nothing and says nothing.  An     *)
(* unbuffered one may take a part only, which nobody notices.              *)
Printed == [missing |-> {None}, block |-> {None}, line |-> {report},
            unbuffered |-> {report, Torn}]

Show ==
    /\ phase = "printing"
    /\ shown' \in Printed[stdout]
    /\ held' = (stdout = "block")
    /\ phase' = "returning"
    /\ UNCHANGED <<suite, json, stdout, results, report, disk, status>>

(* Standard output is written at once and does not take it.  What a buffer *)
(* still holds is tried again at the end.                                  *)
ShowFails ==
    /\ phase = "printing" /\ stdout \in {"line", "unbuffered"}
    /\ shown' \in {None, Torn}
    /\ held' = (stdout = "line")
    /\ Traceback
    /\ UNCHANGED <<suite, json, stdout, results, report, disk>>

(* Mutant: the status says that the program ran.                           *)
ReturnZero ==
    /\ phase = "returning"
    /\ status' = 0 /\ phase' = "closing"
    /\ UNCHANGED <<suite, json, stdout, results, report, disk, held, shown>>

Return ==
    /\ phase = "returning"
    /\ status' = IF report.success THEN 0 ELSE 1
    /\ phase' = "closing"
    /\ UNCHANGED <<suite, json, stdout, results, report, disk, held, shown>>

-----------------------------------------------------------------------------
(* The interpreter shuts down.                                             *)

Close ==
    /\ phase = "closing"
    /\ shown' = IF held THEN report ELSE shown
    /\ held' = FALSE /\ phase' = "exited"
    /\ UNCHANGED <<suite, json, stdout, results, report, disk, status>>

(* The buffer cannot be written: status 120, even if it could be later.    *)
CloseFails ==
    /\ phase = "closing" /\ held
    /\ shown' \in {shown, Torn, report}
    /\ held' = FALSE /\ phase' = "exited" /\ status' = 120
    /\ UNCHANGED <<suite, json, stdout, results, report, disk>>

Ended == phase = "exited" /\ UNCHANGED vars

Next == \/ Refuse \/ Start \/ RunScenario \/ NoScenario \/ Count
        \/ SerializeFails \/ Serialize \/ Write \/ WriteFails \/ Show \/ ShowFails
        \/ Return \/ Close \/ CloseFails \/ Ended

Spec == Init /\ [][Next]_vars

-----------------------------------------------------------------------------
(* Properties.                                                             *)

TypeOK ==
    /\ suite \in Suites /\ json \in BOOLEAN /\ stdout \in Outputs
    /\ phase \in {"called", "running", "counted", "writing", "printing", "returning",
                   "closing", "exited"}
    /\ results \in Seq(ScenarioResults)
    /\ report = None \/ report \in GateResults
    /\ disk \in {None, Stale, Torn, report} /\ shown \in {None, Torn, report}
    /\ held \in BOOLEAN
    /\ status \in {None, 0, 1, 120} /\ (phase \in {"closing", "exited"} <=> status # None)

(* Whoever sees exit status 0 knows that nothing failed, and has the whole *)
(* report: in the file if one was asked for, and printed if there is a     *)
(* standard output and it is buffered.  (Without one the status is 0 and   *)
(* nothing was printed; an unbuffered one may hold a part of it.)  And no  *)
(* report that was refused for one of its names got out in any way.        *)
ExitZeroIsReported ==
    /\ phase = "exited" /\ status = 0 =>
          /\ stdout \in {"line", "block"} => shown = report
          /\ json => disk = report
          /\ Len(suite) > 0 /\ \A k \in DOMAIN suite : suite[k] \in Scenarios /\ Passed(suite[k])
    /\ ({disk, shown} \cap {Torn, report}) \ {None} # {} =>
          SanitizeValue({suite[k].name : k \in DOMAIN suite})
=============================================================================
