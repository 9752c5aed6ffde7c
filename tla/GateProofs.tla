----------------------------- MODULE GateProofs -----------------------------
(***************************************************************************)
(* The release gate, for any suites of scenarios of any length: proofs of  *)
(* what the run gate checks.  The inductive invariant says, phase by       *)
(* phase, how much of the report exists and where it may be seen.          *)
(***************************************************************************)
EXTENDS MCGate, SupervisionProofs

Phases == {"called", "running", "counted", "writing", "printing", "returning", "closing",
           "exited"}

Suite == suite \notin {None, <<>>}

(* The results so far are those of the first scenarios, in order.          *)
Faithful ==
    /\ results \in Seq(ScenarioResults)
    /\ results # <<>> => Suite /\ Len(results) <= Len(suite)
    /\ \A k \in DOMAIN results :
          /\ suite[k] \in Scenarios
          /\ results[k] = [scenario |-> suite[k].name, passed |-> Passed(suite[k])]

(* A report is about the whole suite.                                      *)
Complete == Suite /\ report = GateResult(results) /\ Len(results) = Len(suite)

(* What is outside of the program, phase by phase: nothing but parts of a  *)
(* report that may be published, and all of it where the phase says so.    *)
OnDisk ==
    /\ disk \in {None, Stale} \/ (report # None /\ Publishable /\ disk \in {Torn, report})
    /\ phase \in {"printing", "returning"} /\ json => disk = report

OnScreen ==
    /\ shown = None \/ (report # None /\ Publishable /\ shown \in {Torn, report})
    /\ phase \notin {"returning", "closing", "exited"} => shown = None /\ ~held
    /\ held \in BOOLEAN
    /\ held => report # None /\ Publishable /\ phase \in {"returning", "closing"}
    /\ phase = "returning" => (stdout = "line" => shown = report) /\ (stdout = "block" => held)

(* What an exit status means: 0 that everything passed and the report was  *)
(* written, or is about to be; 1 that something failed, or some output.    *)
ZeroMeans ==
    /\ Complete /\ report.success /\ Publishable /\ (json => disk = report)
    /\ stdout = "line" => shown = report
    /\ stdout = "block" => IF phase = "closing" THEN held ELSE shown = report

OneMeans ==
    IF report = None THEN ~Suite \/ \E k \in DOMAIN suite : suite[k] = NotAScenario
    ELSE ~report.success \/ ~Publishable \/ json \/ stdout \in {"line", "unbuffered"}

Statuses ==
    /\ status \in {None, 0, 1, 120} /\ (phase \in {"closing", "exited"} <=> status # None)
    /\ status = 0 => ZeroMeans
    /\ status = 1 => OneMeans

Inv ==
    /\ suite \in Suites /\ json \in BOOLEAN /\ stdout \in Outputs /\ phase \in Phases
    /\ Faithful
    /\ phase # "called" /\ status = None => Suite
    /\ phase \in {"called", "running"} => report = None
    /\ phase \in {"counted", "writing", "printing", "returning"} => Complete
    /\ report = None \/ Complete
    /\ phase \in {"writing", "printing", "returning"} => Publishable
    /\ phase = "writing" => json
    /\ OnDisk
    /\ OnScreen
    /\ Statuses

-----------------------------------------------------------------------------
(* Suites and reports.                                                     *)

LEMMA SuiteMeans ==
    ASSUME suite \in Suites, Suite
    PROVE  /\ suite \in Seq(Scenarios \cup {NotAScenario})
           /\ Len(suite) \in Nat \ {0} /\ DOMAIN suite = 1..Len(suite)
           /\ \A k \in DOMAIN suite : suite[k] \in Scenarios \cup {NotAScenario}
<1>1. suite \in Seq(Scenarios \cup {NotAScenario}) /\ suite # <<>>
    BY GateAssumption DEF Suite
<1> QED BY <1>1, EmptySeq, LenProperties, ElementOfSeq

(* The counts of a report add up, and it claims success exactly when every *)
(* scenario passed.                                                        *)
LEMMA GateResultMeans ==
    ASSUME NEW rs \in Seq(ScenarioResults)
    PROVE  /\ GateResult(rs) \in GateResults
           /\ GateResult(rs).scenarios = rs
           /\ GateResult(rs).passed + GateResult(rs).failed = Len(rs)
           /\ GateResult(rs).success <=> \A k \in DOMAIN rs : rs[k].passed
<1> DEFINE P == {k \in DOMAIN rs : rs[k].passed}
           n == Len(rs)
<1>1. n \in Nat /\ DOMAIN rs = 1..n /\ IsFiniteSet(1..n) /\ Cardinality(1..n) = n
  <2>1. n \in Nat /\ DOMAIN rs = 1..n
      BY LenProperties
  <2> HIDE DEF n
  <2> QED BY <2>1, FS_Interval
<1>2. IsFiniteSet(P) /\ Cardinality(P) <= n /\ (Cardinality(P) = n => P = 1..n)
  <2>1. P \in SUBSET (1..n)
      BY <1>1
  <2> HIDE DEF P
  <2> QED BY <1>1, <2>1, FS_Subset
<1>3. Cardinality(P) \in Nat
    BY <1>2, FS_CardinalityType
<1>4. Cardinality(P) = n <=> \A k \in DOMAIN rs : rs[k].passed
  <2>1. P = 1..n <=> \A k \in DOMAIN rs : rs[k].passed
      BY <1>1
  <2> HIDE DEF P
  <2> QED BY <1>1, <1>2, <2>1
<1>5. GateResult(rs) = [passed |-> Cardinality(P), failed |-> n - Cardinality(P), total |-> n,
                        success |-> Cardinality(P) = n, scenarios |-> rs]
    BY DEF GateResult
<1> HIDE DEF P, n
<1>6. n - Cardinality(P) \in Nat /\ (Cardinality(P) = n) \in BOOLEAN
    BY <1>1, <1>2, <1>3
<1>7. GateResult(rs) \in GateResults
    BY <1>1, <1>3, <1>5, <1>6 DEF GateResults
<1>8. Cardinality(P) + (n - Cardinality(P)) = n
    BY <1>1, <1>3
<1>9. /\ GateResult(rs).passed = Cardinality(P) /\ GateResult(rs).scenarios = rs
      /\ GateResult(rs).failed = n - Cardinality(P)
      /\ GateResult(rs).success = (Cardinality(P) = n)
    BY <1>5
<1> QED BY <1>4, <1>7, <1>8, <1>9 DEF n

(* What is on the report, and that it is not one of the marks for none.    *)
LEMMA CompleteMeans ==
    ASSUME suite \in Suites, Faithful, Complete
    PROVE  /\ report \in GateResults /\ report \notin {None, Stale}
           /\ report.scenarios = results /\ DOMAIN results = DOMAIN suite
           /\ report.success <=> \A k \in DOMAIN suite : Passed(suite[k])
           /\ \A k \in DOMAIN suite : suite[k] \in Scenarios
           /\ Publishable <=> SanitizeValue({suite[k].name : k \in DOMAIN suite})
<1>1. /\ report \in GateResults /\ report.scenarios = results
      /\ report.success <=> \A k \in DOMAIN results : results[k].passed
    BY GateResultMeans DEF Faithful, Complete
<1>2. DOMAIN results = DOMAIN suite
    BY SuiteMeans, LenProperties DEF Faithful, Complete
<1>3. \A k \in DOMAIN suite :
          /\ suite[k] \in Scenarios
          /\ results[k].scenario = suite[k].name
          /\ results[k].passed <=> Passed(suite[k])
  <2>1. \A k \in DOMAIN suite : Passed(suite[k]) \in BOOLEAN
      BY DEF Passed
  <2> QED BY <1>2, <2>1 DEF Faithful
<1>4. {report.scenarios[k].scenario : k \in DOMAIN report.scenarios}
        = {suite[k].name : k \in DOMAIN suite}
    BY <1>1, <1>2, <1>3
<1>5. Publishable <=> SanitizeValue({suite[k].name : k \in DOMAIN suite})
    BY <1>4, Zenon DEF Publishable
<1> QED BY <1>1, <1>2, <1>3, <1>5, GateAssumption

-----------------------------------------------------------------------------
(* The run.                                                                *)

(* Every scenario run has one result, in its place; a report is about the  *)
(* whole suite; nothing of it is on the disk or on the screen unless all   *)
(* its names may be published; status 0 is only reached with success.      *)
THEOREM Invariance == Spec => []Inv
<1>1. Init => Inv
  <2> SUFFICES ASSUME Init PROVE Inv
      OBVIOUS
  <2>1. results = <<>> /\ results \in Seq(ScenarioResults) /\ DOMAIN results = {}
      BY EmptySeq, LenProperties DEF Init
  <2>2. Faithful
      BY <2>1 DEF Faithful
  <2>3. None # 0 /\ None # 1
      BY GateAssumption
  <2>4. /\ suite \in Suites /\ json \in BOOLEAN /\ stdout \in Outputs
        /\ phase = "called" /\ report = None
        /\ disk \in {None, Stale} /\ held = FALSE /\ shown = None /\ status = None
      BY DEF Init
  <2> QED BY <2>2, <2>3, <2>4 DEF Inv, Phases, OnDisk, OnScreen, Statuses
<1>2. Inv /\ [Next]_vars => Inv'
  <2> SUFFICES ASSUME Inv, [Next]_vars PROVE Inv'
      OBVIOUS
  <2>1. /\ suite \in Suites /\ Faithful
        /\ None \notin {0, 1, 120} /\ Torn # None /\ Stale # None /\ Stale # Torn
        /\ None \notin GateResults
      BY GateAssumption DEF Inv
  <2>2. ASSUME UNCHANGED <<suite, results, report>>
        PROVE  /\ Faithful' /\ (Suite' <=> Suite) /\ (Complete' <=> Complete)
               /\ (Publishable' <=> Publishable)
      BY <2>1, <2>2 DEF Faithful, Suite, Complete, Publishable
  <2>3. ASSUME Refuse PROVE Inv'
    <3>1. ~Suite /\ report = None /\ disk \in {None, Stale} /\ held = FALSE /\ shown = None
        BY <2>3 DEF Refuse, Suite, Inv, OnDisk, OnScreen
    <3> QED BY <2>1, <2>2, <2>3, <3>1
            DEF Refuse, Traceback, Inv, Phases, OnDisk, OnScreen, Statuses, OneMeans
  <2>4. ASSUME Start PROVE Inv'
    <3>1. Suite
        BY <2>4 DEF Start, Suite
    <3> QED BY <2>1, <2>2, <2>4, <3>1 DEF Start, Inv, Phases, OnDisk, OnScreen, Statuses
  <2>5. ASSUME RunScenario PROVE Inv'
    <3> DEFINE n == Len(results) + 1
    <3>1. Suite /\ Len(results) < Len(suite) /\ Current # NotAScenario
          /\ report = None /\ report' = None
        BY <2>1, <2>5 DEF RunScenario, Inv, Statuses
    <3>2. /\ results \in Seq(ScenarioResults) /\ Len(results) \in Nat
          /\ DOMAIN results = 1..Len(results)
        BY <2>1, LenProperties DEF Faithful
    <3>3. n \in DOMAIN suite /\ Current = suite[n] /\ Current \in Scenarios
      <4>1. n \in DOMAIN suite
          BY <2>1, <3>1, <3>2, SuiteMeans
      <4> QED BY <2>1, <3>1, <4>1, SuiteMeans DEF Current
    <3> DEFINE r == [scenario |-> Current.name, passed |-> Passed(Current)]
    <3>4. r \in ScenarioResults
      <4>1. Passed(Current) \in BOOLEAN
          BY DEF Passed
      <4> QED BY <3>3, <4>1 DEF ScenarioResults
    <3> HIDE DEF r
    <3>5. /\ results' \in Seq(ScenarioResults) /\ Len(results') = n
          /\ \A k \in 1..Len(results) : results'[k] = results[k]
          /\ results'[n] = r
      <4>1. results' = Append(results, r)
          BY <2>5 DEF RunScenario, r
      <4> QED BY <3>2, <3>4, <4>1, AppendProperties
    <3>6. DOMAIN results' = 1..n
        BY <3>5, LenProperties
    <3>7. suite' = suite
        BY <2>5 DEF RunScenario
    <3>8. Faithful'
      <4>1. \A k \in 1..n : k \in 1..Len(results) \/ k = n
          BY <3>2
      <4>2. \A k \in 1..n : /\ suite[k] \in Scenarios
                            /\ results'[k] = [scenario |-> suite[k].name,
                                              passed |-> Passed(suite[k])]
          BY <2>1, <3>2, <3>3, <3>5, <4>1 DEF Faithful, r
      <4>3. Suite' /\ Len(results') <= Len(suite')
          BY <2>1, <3>1, <3>2, <3>5, <3>7, SuiteMeans DEF Suite
      <4> QED BY <3>5, <3>6, <3>7, <4>2, <4>3 DEF Faithful, Passed
    <3>9. /\ suite \in Suites /\ json \in BOOLEAN /\ stdout \in Outputs
          /\ phase = "running" /\ disk \in {None, Stale}
          /\ held = FALSE /\ shown = None /\ status = None
        BY <2>1, <2>5, <3>1 DEF RunScenario, Inv, OnDisk, OnScreen, Statuses
    <3>10. UNCHANGED <<suite, json, stdout, phase, disk, held, shown, status>>
        BY <2>5 DEF RunScenario
    <3>11. Suite'
        BY <3>1, <3>10 DEF Suite
    <3> QED BY <2>1, <3>1, <3>8, <3>9, <3>10, <3>11 DEF Inv, Phases, OnDisk, OnScreen, Statuses
  <2>6. ASSUME NoScenario PROVE Inv'
    <3>1. Suite /\ report = None /\ disk \in {None, Stale} /\ held = FALSE /\ shown = None
        BY <2>1, <2>6 DEF NoScenario, Inv, OnDisk, OnScreen, Statuses
    <3>2. \E k \in DOMAIN suite : suite[k] = NotAScenario
      <4>1. Len(results) \in Nat
          BY <2>1, LenProperties DEF Faithful
      <4>2. Len(results) + 1 \in DOMAIN suite
          BY <2>1, <2>6, <3>1, <4>1, SuiteMeans DEF NoScenario
      <4> QED BY <2>6, <4>2 DEF NoScenario, Current
    <3> QED BY <2>1, <2>2, <2>6, <3>1, <3>2
            DEF NoScenario, Traceback, Inv, Phases, OnDisk, OnScreen, Statuses, OneMeans
  <2>7. ASSUME Count PROVE Inv'
    <3>1. Faithful' /\ Suite' /\ Complete'
        BY <2>1, <2>7 DEF Count, Faithful, Suite, Complete, Inv, Statuses
    <3>2. /\ suite \in Suites /\ json \in BOOLEAN /\ stdout \in Outputs
          /\ disk \in {None, Stale} /\ held = FALSE /\ shown = None /\ status = None
        BY <2>1, <2>7 DEF Count, Inv, OnDisk, OnScreen, Statuses
    <3>3. UNCHANGED <<suite, json, stdout, disk, held, shown, status>> /\ phase' = "counted"
        BY <2>7 DEF Count
    <3> QED BY <2>1, <3>1, <3>2, <3>3 DEF Inv, Phases, OnDisk, OnScreen, Statuses
  <2>8. ASSUME SerializeFails PROVE Inv'
    <3>1. /\ report # None /\ Complete /\ ~Publishable
          /\ disk \in {None, Stale} /\ held = FALSE /\ shown = None
        BY <2>1, <2>8, CompleteMeans DEF SerializeFails, Inv, OnDisk, OnScreen
    <3> QED BY <2>1, <2>2, <2>8, <3>1
            DEF SerializeFails, Traceback, Inv, Phases, OnDisk, OnScreen, Statuses, OneMeans
  <2>9. ASSUME Serialize PROVE Inv'
    <3>1. report # None
        BY <2>1, <2>9, CompleteMeans DEF Serialize, Inv
    <3> QED BY <2>1, <2>2, <2>9, <3>1
            DEF Serialize, Inv, Phases, OnDisk, OnScreen, Statuses
  <2>10. ASSUME Write PROVE Inv'
    <3>1. report # None
        BY <2>1, <2>10, CompleteMeans DEF Write, Inv
    <3> QED BY <2>1, <2>2, <2>10, <3>1
            DEF Write, Inv, Phases, OnDisk, OnScreen, Statuses
  <2>11. ASSUME WriteFails PROVE Inv'
    <3>1. report # None
        BY <2>1, <2>11, CompleteMeans DEF WriteFails, Inv
    <3> QED BY <2>1, <2>2, <2>11, <3>1
            DEF WriteFails, Traceback, OneMeans, Inv, Phases, OnDisk, OnScreen, Statuses
  <2>12. ASSUME Show PROVE Inv'
    <3>1. report # None
        BY <2>1, <2>12, CompleteMeans DEF Show, Inv
    <3>2. /\ shown' \in {None, Torn, report}
          /\ stdout = "line" => shown' = report
          /\ held' = (stdout = "block")
        BY <2>12 DEF Show, Printed, Inv, Outputs
    <3> QED BY <2>1, <2>2, <2>12, <3>1, <3>2
            DEF Show, Inv, Phases, OnDisk, OnScreen, Statuses
  <2>13. ASSUME ShowFails PROVE Inv'
    <3>1. report # None
        BY <2>1, <2>13, CompleteMeans DEF ShowFails, Inv
    <3> QED BY <2>1, <2>2, <2>13, <3>1
            DEF ShowFails, Traceback, OneMeans, Inv, Phases, OnDisk, OnScreen, Statuses
  <2>14. ASSUME Return PROVE Inv'
    <3>1. report # None
        BY <2>1, <2>14, CompleteMeans DEF Return, Inv
    <3>2. report.success => ZeroMeans'
        BY <2>2, <2>14 DEF Return, ZeroMeans, Inv, OnDisk, OnScreen
    <3>3. ~report.success => OneMeans'
        BY <2>2, <2>14, <3>1 DEF Return, OneMeans
    <3> QED BY <2>1, <2>2, <2>14, <3>1, <3>2, <3>3
            DEF Return, Inv, Phases, OnDisk, OnScreen, Statuses
  <2>15. ASSUME Close PROVE Inv'
    <3>1. /\ status = 0 => ZeroMeans'
          /\ status = 1 => OneMeans'
        BY <2>1, <2>2, <2>15 DEF Close, ZeroMeans, OneMeans, Suite, Inv, OnScreen, Statuses
    <3>2. Statuses'
        BY <2>15, <3>1 DEF Close, Inv, Statuses
    <3>3. OnDisk' /\ OnScreen'
        BY <2>2, <2>15 DEF Close, Inv, OnDisk, OnScreen
    <3> QED BY <2>1, <2>2, <2>15, <3>2, <3>3 DEF Close, Inv, Phases, Statuses
  <2>16. ASSUME CloseFails PROVE Inv'
    <3>1. Statuses'
        BY <2>1, <2>16 DEF CloseFails, Inv, Statuses
    <3>2. OnDisk' /\ OnScreen'
        BY <2>2, <2>16 DEF CloseFails, Inv, OnDisk, OnScreen
    <3> QED BY <2>1, <2>2, <2>16, <3>1, <3>2 DEF CloseFails, Inv, Phases, Statuses
  <2>17. CASE UNCHANGED vars
      BY <2>1, <2>2, <2>17
      DEF vars, Inv, OnDisk, OnScreen, Statuses, ZeroMeans, OneMeans
  <2> QED BY <2>3, <2>4, <2>5, <2>6, <2>7, <2>8, <2>9, <2>10, <2>11, <2>12, <2>13, <2>14,
             <2>15, <2>16, <2>17 DEF Next, Ended
<1> QED BY <1>1, <1>2, PTL DEF Spec

(* The report has the form it must have, and nothing else is printed, or   *)
(* in a file that was completely written.                                  *)
THEOREM TypeCorrectness == Spec => []TypeOK
<1>1. Inv => TypeOK
  <2> SUFFICES ASSUME Inv PROVE TypeOK
      OBVIOUS
  <2>1. report = None \/ report \in GateResults
      BY CompleteMeans DEF Inv
  <2> QED BY <2>1 DEF Inv, Phases, OnDisk, OnScreen, Statuses, Faithful, TypeOK
<1> QED BY <1>1, Invariance, PTL

(* Exit status 0 is only seen when everything passed and the whole report  *)
(* was written to the file that was asked for and to a buffered standard   *)
(* output, and a report that was refused is nowhere.                       *)
THEOREM ExitStatus == Spec => []ExitZeroIsReported
<1>1. Inv => ExitZeroIsReported
  <2> SUFFICES ASSUME Inv PROVE ExitZeroIsReported
      OBVIOUS
  <2>1. suite \in Suites /\ Faithful /\ (report # None => Complete)
      BY DEF Inv
  <2>2. ASSUME phase = "exited", status = 0
        PROVE  /\ stdout \in {"line", "block"} => shown = report
               /\ json => disk = report
               /\ Len(suite) > 0
               /\ \A k \in DOMAIN suite : suite[k] \in Scenarios /\ Passed(suite[k])
    <3>1. /\ Complete /\ report.success
          /\ stdout \in {"line", "block"} => shown = report
          /\ json => disk = report
        BY <2>2 DEF Inv, Statuses, ZeroMeans
    <3>2. Len(suite) > 0
        BY <2>1, <3>1, SuiteMeans DEF Complete
    <3> QED BY <2>1, <3>1, <3>2, CompleteMeans
  <2>3. ASSUME ({disk, shown} \cap {Torn, report}) \ {None} # {}
        PROVE  SanitizeValue({suite[k].name : k \in DOMAIN suite})
    <3>1. report # None /\ Publishable
      <4>1. Stale # Torn /\ Torn # None /\ Stale # None
          BY GateAssumption
      <4>2. report # Stale \/ report = None
          BY <2>1, CompleteMeans
      <4> QED BY <2>3, <4>1, <4>2 DEF Inv, OnDisk, OnScreen
    <3> QED BY <2>1, <3>1, CompleteMeans
  <2> QED BY <2>2, <2>3 DEF ExitZeroIsReported
<1> QED BY <1>1, Invariance, PTL

(* The gate tells the truth about any suite: a report has one result for   *)
(* each scenario, in order, and its counts are those of the ones that      *)
(* passed.                                                                 *)
Truthful ==
    report # None =>
        /\ [k \in DOMAIN report.scenarios |-> report.scenarios[k].passed]
              = [k \in DOMAIN suite |-> Passed(suite[k])]
        /\ report.success <=> \A k \in DOMAIN suite : Passed(suite[k])
        /\ report.passed = Cardinality({k \in DOMAIN suite : Passed(suite[k])})
        /\ report.passed + report.failed = Len(suite) /\ report.total = Len(suite)

THEOREM Truth == Spec => []Truthful
<1>1. Inv => Truthful
  <2> SUFFICES ASSUME Inv, report # None PROVE Truthful
      BY DEF Truthful
  <2>1. suite \in Suites /\ Faithful /\ Complete
      BY DEF Inv
  <2>2. /\ report.scenarios = results /\ DOMAIN results = DOMAIN suite
        /\ report.success <=> \A k \in DOMAIN suite : Passed(suite[k])
      BY <2>1, CompleteMeans
  <2>3. report.passed + report.failed = Len(results)
      BY <2>1, GateResultMeans DEF Faithful, Complete
  <2>4. \A k \in DOMAIN suite : results[k].passed = Passed(suite[k])
      BY <2>1, <2>2 DEF Faithful
  <2>5. /\ report.total = Len(results)
        /\ report.passed = Cardinality({k \in DOMAIN results : results[k].passed})
      BY <2>1 DEF Complete, GateResult
  <2>6. {k \in DOMAIN results : results[k].passed} = {k \in DOMAIN suite : Passed(suite[k])}
      BY <2>2, <2>4
  <2>7. [k \in DOMAIN report.scenarios |-> report.scenarios[k].passed]
            = [k \in DOMAIN suite |-> Passed(suite[k])]
      BY <2>2, <2>4
  <2> QED BY <2>1, <2>2, <2>3, <2>5, <2>6, <2>7 DEF Truthful, Complete
<1> QED BY <1>1, Invariance, PTL

-----------------------------------------------------------------------------
(* The scenarios.                                                          *)

(* Panels of four, by what they hold in each place.                        *)
FourOpinions ==
    {p \in Panels : /\ Len(p) = 4
                   /\ \A k \in 1..4 : p[k] \in CouncilOpinions
                   /\ p[1].role = SECURITY /\ p[2].role = INTEGRITY
                   /\ p[3].role = GOVERNANCE /\ p[4].role = OPERATIONS}

(* The panel of the shipped scenarios has one opinion per role, in order.  *)
LEMMA PanelIs ==
    /\ Panel \in FourOpinions /\ DOMAIN Panel = 1..4
    /\ \A k \in 1..4 : /\ Panel[k].class = "FRONTIER" /\ Panel[k].score = 10
                       /\ ~Panel[k].veto
                       /\ Panel[k] \in CouncilOpinions
<1>1. \A r \in Roles : /\ Opinion(r) \in CouncilOpinions /\ Opinion(r).role = r
                       /\ Opinion(r).class = "FRONTIER" /\ Opinion(r).score = 10
                       /\ Opinion(r).veto = FALSE
    BY DEF Opinion, CouncilOpinions, Classes, Scores
<1>2. {SECURITY, INTEGRITY, GOVERNANCE, OPERATIONS} \subseteq Roles
    BY GateAssumption
<1>3. /\ DOMAIN Panel = 1..4 /\ Len(Panel) = 4
      /\ Panel[1] = Opinion(SECURITY) /\ Panel[2] = Opinion(INTEGRITY)
      /\ Panel[3] = Opinion(GOVERNANCE) /\ Panel[4] = Opinion(OPERATIONS)
    BY DEF Panel
<1>4. \A k \in 1..4 : \E r \in Roles : Panel[k] = Opinion(r)
  <2>1. \A k \in 1..4 : k = 1 \/ k = 2 \/ k = 3 \/ k = 4
      OBVIOUS
  <2> QED BY <1>2, <1>3, <2>1
<1>5. Panel \in Panels
  <2>1. \A k \in 1..4 : Panel[k] \in CouncilOpinions \cup {NotAnOpinion}
      BY <1>1, <1>4
  <2>2. Panel = [k \in 1..4 |-> Panel[k]]
      BY DEF Panel
  <2> QED BY <1>3, <2>1, <2>2, IsASeq DEF Panels
<1> HIDE DEF Panel
<1> QED BY <1>1, <1>2, <1>3, <1>4, <1>5 DEF FourOpinions

(* Such a panel is selected if and only if all four are eligible, and a    *)
(* panel without strangers in it makes nothing raise.                      *)
LEMMA FourVoices ==
    ASSUME NEW p \in FourOpinions
    PROVE  /\ Selection(p) = "SELECTED" <=> \A k \in 1..4 : Eligible(p[k])
           /\ Selection(p) # "AGGREGATION_ERROR"
           /\ Opinions(p) = {p[1], p[2], p[3], p[4]}
<1>1. /\ p \in Panels /\ DOMAIN p = 1..4
      /\ \A k \in 1..4 : p[k] \in CouncilOpinions /\ p[k] # NotAnOpinion
      /\ \A k \in 1..4 : k = 1 \/ k = 2 \/ k = 3 \/ k = 4
    BY PanelMembers, GateAssumption DEF FourOpinions
<1>2. OneVoicePerRole(p)
  <2>1. /\ p[1].role = SECURITY /\ p[2].role = INTEGRITY
        /\ p[3].role = GOVERNANCE /\ p[4].role = OPERATIONS
      BY DEF FourOpinions
  <2>2. \A j, k \in 1..4 : p[j].role = p[k].role => j = k
    <3>1. /\ SECURITY # INTEGRITY /\ SECURITY # GOVERNANCE /\ SECURITY # OPERATIONS
          /\ INTEGRITY # GOVERNANCE /\ INTEGRITY # OPERATIONS /\ GOVERNANCE # OPERATIONS
        BY GateAssumption
    <3> QED BY <1>1, <2>1, <3>1
  <2>3. ASSUME NEW r \in Roles PROVE \E k \in 1..4 : p[k].role = r
    <3>1. r \in {SECURITY, INTEGRITY, GOVERNANCE, OPERATIONS}
        BY GateAssumption
    <3> QED BY <2>1, <3>1
  <2>4. DOMAIN p = 1..4
      BY <1>1
  <2> QED BY <2>2, <2>3, <2>4 DEF OneVoicePerRole
<1>3. AllEligible(p) <=> \A k \in 1..4 : Eligible(p[k])
    BY <1>1 DEF AllEligible
<1>4. Selection(p) # "AGGREGATION_ERROR"
  <2>1. CASE Spoilers(p) = {}
      BY <2>1 DEF Selection
  <2>2. CASE Spoilers(p) # {}
    <3>1. Spoilers(p) \in SUBSET Nat /\ Spoilers(p) \subseteq 1..4
        BY <1>1 DEF Spoilers
    <3>2. Min(Spoilers(p)) \in 1..4
        BY <2>2, <3>1, MinOfScores
    <3> QED BY <1>1, <2>2, <3>2 DEF Selection
  <2> QED BY <2>1, <2>2
<1>5. Opinions(p) = {p[1], p[2], p[3], p[4]}
  <2>1. \A o : o \in Opinions(p) <=> \E k \in 1..4 : o = p[k]
      BY <1>1 DEF Opinions
  <2> QED BY <1>1, <2>1
<1> QED BY <1>1, <1>2, <1>3, <1>4, <1>5, SelectedMeans

(* What decides whether a scenario passes.                                 *)
LEMMA PassedMeans ==
    ASSUME NEW s, s.action \in ActionRequests, s.opinions \in Panels, s.extras \in Extras
    PROVE  LET x == s.extras
               b == Assess(s.action)
               d == Aggregate(b, s.opinions, s.action.environment)
           IN  Passed(s) <=> /\ ~Refused(x) /\ d # Raised
                             /\ d.verdict = s.verdict
                             /\ Recommendation[d.verdict] = s.recommendation
                             /\ ClassOf(SentinelResult(x)) = s.sentinel
<1> DEFINE a == s.action
           p == s.opinions
           x == s.extras
           d == Aggregate(Assess(a), p, a.environment)
           r == Supervise(a, p, x)
<1>1. /\ r = Raised <=> Refused(x) \/ d = Raised
      /\ r # Raised => r.decision = d /\ r.recommendation = Recommendation[d.verdict]
    BY SuperviseMeans, GateAssumption
<1>2. r # Raised => r.sentinel = SentinelResult(x)
  <2>1. Supervise(a, p, x) = IF Refused(x) \/ d = Raised THEN Raised
                             ELSE Report(a, d, SentinelResult(x))
      BY DEF Supervise
  <2> QED BY <2>1 DEF Report
<1> HIDE DEF d, r
<1> QED BY <1>1, <1>2 DEF Passed, d, r

(* No objection, and no disagreement.                                      *)
Fit(p) == /\ \A k \in 1..4 : Eligible(p[k]) /\ ~p[k].veto
          /\ \A j, k \in 1..4 : p[j].score - p[k].score <= 30

(* What four opinions decide of a request.                                 *)
LEMMA FourDecide ==
    ASSUME NEW p \in FourOpinions, NEW a \in ActionRequests
    PROVE  LET d == Aggregate(Assess(a), p, a.environment)
           IN  /\ d # Raised
               /\ a.type \in HARD_STOP_ACTIONS => d.verdict = "STOP_AND_HUMAN"
               /\ a.type \notin HARD_STOP_ACTIONS /\ ~Fit(p) => d.verdict = "HUMAN_REQUIRED"
               /\ /\ a.type \notin HARD_STOP_ACTIONS /\ Fit(p)
                  /\ RiskScore(a) < 40 /\ \A k \in 1..4 : p[k].score < 40
                  => d.verdict = IF a.environment = "DISPOSABLE"
                                 THEN "SHADOW_AUTOAPPROVE_CANDIDATE" ELSE "HUMAN_REQUIRED"
<1> DEFINE b == Assess(a)
           d == Aggregate(b, p, a.environment)
<1>1. p \in Panels /\ b \in RiskAssessments /\ a.environment \in Environments
      /\ Raised \notin CouncilDecisions
    BY AssessMeans, GateAssumption DEF FourOpinions, ActionRequests
<1>2. /\ Selection(p) = "SELECTED" <=> \A k \in 1..4 : Eligible(p[k])
      /\ Selection(p) # "AGGREGATION_ERROR"
      /\ \A o : o \in Opinions(p) <=> \E k \in 1..4 : o = p[k]
    BY FourVoices
<1>3. Usable(p) <=> Fit(p)
  <2>1. Vetoed(p) <=> \E k \in 1..4 : p[k].veto
      BY <1>2 DEF Vetoed
  <2>2. Diverges(p) <=> \E j, k \in 1..4 : p[j].score - p[k].score > 30
    <3>1. p[1] \in Opinions(p)
        BY <1>2
    <3>2. Diverges(p) <=> \E o, q \in Opinions(p) : o.score - q.score > 30
        BY <1>1, <3>1, DivergesMeans
    <3> QED BY <1>2, <3>2
  <2>3. \A k \in 1..4 : p[k].score \in Nat
      BY DEF FourOpinions, CouncilOpinions, Scores
  <2> QED BY <1>2, <2>1, <2>2, <2>3 DEF Usable, Fit
<1>4. /\ IsHardStop(b) <=> a.type \in HARD_STOP_ACTIONS
      /\ a.type \notin HARD_STOP_ACTIONS => b.score = RiskScore(a)
    BY AssessMeans
<1>5. /\ IsHardStop(b) => d = Stop(b)
      /\ ~IsHardStop(b) => d # Raised
      /\ ~IsHardStop(b) => d.verdict = IF Usable(p) THEN Band(Combined(b, p), a.environment).verdict
                                       ELSE "HUMAN_REQUIRED"
    BY <1>1, <1>2, AggregateMeans
<1>6. Stop(b).verdict = "STOP_AND_HUMAN" /\ Stop(b) \in CouncilDecisions
  <2>1. b.reasons \cup {IF b.bypass THEN "HARD_STOP_ACTION" ELSE "SCORE_TEN"}
            \in SUBSET ReasonCodes
      BY <1>1 DEF RiskAssessments, ReasonCodes, ActionReasons, CouncilReasons
  <2> QED BY <2>1 DEF Stop, CouncilDecisions, Verdicts, Scores
<1>7. ASSUME ~IsHardStop(b), RiskScore(a) < 40, \A k \in 1..4 : p[k].score < 40
      PROVE  Band(Combined(b, p), a.environment).verdict
                = IF a.environment = "DISPOSABLE"
                  THEN "SHADOW_AUTOAPPROVE_CANDIDATE" ELSE "HUMAN_REQUIRED"
  <2>1. Combined(b, p) \in Scores
        /\ (Combined(b, p) = b.score \/ \E o \in Opinions(p) : Combined(b, p) = o.score)
      BY <1>1, CombinedMeans
  <2>2. Combined(b, p) < 40
      BY <1>2, <1>4, <1>7, <2>1
  <2>3. Combined(b, p) \in Int
      BY <2>1 DEF Scores
  <2> QED BY <2>2, <2>3 DEF Band, HumanRequiredFloor, MitigateFloor
<1> HIDE DEF b, d
<1>8. d # Raised
    BY <1>1, <1>5, <1>6
<1> QED BY <1>3, <1>4, <1>5, <1>6, <1>7, <1>8 DEF b, d

(* The requests of the shipped scenarios: two score 20 at most, the others *)
(* are hard stops.                                                         *)
Developing == [Low EXCEPT !.environment = "DEVELOPMENT"]

LEMMA RequestsAre ==
    /\ \A a \in {Low, Developing} :
          /\ a \in ActionRequests /\ a.type \notin HARD_STOP_ACTIONS /\ RiskScore(a) < 40
    /\ Low.environment = "DISPOSABLE" /\ Developing.environment = "DEVELOPMENT"
    /\ \A a \in {Action("REQUEST_SUDO"), Broad("DATABASE_DROP"), Broad("DELETE_BROAD_PATH")} :
          a \in ActionRequests /\ a.type \in HARD_STOP_ACTIONS
<1>1. ASSUME NEW t \in ActionTypes
      PROVE  /\ Action(t) \in ActionRequests
             /\ Action(t) = [type |-> t, environment |-> "DISPOSABLE",
                              reversibility |-> "REVERSIBLE", scope |-> "SINGLE",
                              sensitive |-> FALSE, external |-> FALSE]
    BY DEF Action, ActionRequests, Environments, Reversibilities, Scopes
<1>2. ASSUME NEW r \in ActionRequests
      PROVE  /\ LET d == [r EXCEPT !.environment = "DEVELOPMENT"] IN
                /\ d \in ActionRequests /\ d.environment = "DEVELOPMENT" /\ d.type = r.type
                /\ d.reversibility = r.reversibility /\ d.scope = r.scope
                /\ d.sensitive = r.sensitive /\ d.external = r.external
             /\ LET d == [r EXCEPT !.reversibility = "IRREVERSIBLE", !.scope = "BROAD"] IN
                d \in ActionRequests /\ d.type = r.type
  <2>1. "DEVELOPMENT" \in Environments /\ "IRREVERSIBLE" \in Reversibilities
        /\ "BROAD" \in Scopes
      BY DEF Environments, Reversibilities, Scopes
  <2> QED BY <2>1 DEF ActionRequests
<1>3. {"CREATE_TEMP_FILE", "REQUEST_SUDO", "DATABASE_DROP", "DELETE_BROAD_PATH"}
        \subseteq ActionTypes
    BY DEF ActionTypes
<1>4. /\ Low \in ActionRequests /\ Developing \in ActionRequests
      /\ Low.environment = "DISPOSABLE" /\ Developing.environment = "DEVELOPMENT"
      /\ \A a \in {Low, Developing} :
            /\ a.type = "CREATE_TEMP_FILE"
            /\ a.reversibility = "REVERSIBLE" /\ a.scope = "SINGLE"
            /\ a.sensitive = FALSE /\ a.external = FALSE
  <2>1. /\ Low \in ActionRequests /\ Low.type = "CREATE_TEMP_FILE"
        /\ Low.environment = "DISPOSABLE" /\ Low.reversibility = "REVERSIBLE"
        /\ Low.scope = "SINGLE" /\ Low.sensitive = FALSE /\ Low.external = FALSE
      BY <1>1, <1>3 DEF Low
  <2>2. /\ Developing \in ActionRequests
        /\ Developing.environment = "DEVELOPMENT" /\ Developing.type = Low.type
        /\ Developing.reversibility = Low.reversibility /\ Developing.scope = Low.scope
        /\ Developing.sensitive = Low.sensitive /\ Developing.external = Low.external
      BY <1>2, <2>1, Zenon DEF Developing
  <2> QED BY <2>1, <2>2
<1>5. \A a \in {Low, Developing} :
          /\ a.type \notin HARD_STOP_ACTIONS
          /\ BaselineMinScore[a.type] = 0 /\ \A s \in FiveScores(a) : s \in {0, 20}
  <2> SUFFICES ASSUME NEW a \in {Low, Developing}
               PROVE  /\ a.type \notin HARD_STOP_ACTIONS
                      /\ BaselineMinScore[a.type] = 0
                      /\ \A s \in FiveScores(a) : s \in {0, 20}
      OBVIOUS
  <2>1. /\ a.type = "CREATE_TEMP_FILE" /\ a.environment \in {"DISPOSABLE", "DEVELOPMENT"}
        /\ a.reversibility = "REVERSIBLE" /\ a.scope = "SINGLE"
        /\ a.sensitive = FALSE /\ a.external = FALSE
      BY <1>4, Zenon
  <2>2. a.type \notin HARD_STOP_ACTIONS /\ BaselineMinScore[a.type] = 0
      BY <2>1 DEF HARD_STOP_ACTIONS, BaselineMinScore
  <2>3. ReversibilityScore[a.reversibility] = 0 /\ ScopeScore[a.scope] = 0
      BY <2>1 DEF ReversibilityScore, ScopeScore
  <2>4. EnvironmentScore[a.environment] \in {0, 20}
      BY <2>1 DEF EnvironmentScore
  <2> QED BY <2>1, <2>2, <2>3, <2>4 DEF FiveScores, FlagScore
<1>6. \A a \in {Low, Developing} : RiskScore(a) \in {0, 20}
    BY <1>4, <1>5, RiskMeans
<1>7. /\ Action("REQUEST_SUDO") \in ActionRequests
      /\ Action("REQUEST_SUDO").type \in HARD_STOP_ACTIONS
    BY <1>1, <1>3 DEF HARD_STOP_ACTIONS
<1>8. ASSUME NEW t \in {"DATABASE_DROP", "DELETE_BROAD_PATH"}
      PROVE  Broad(t) \in ActionRequests /\ Broad(t).type \in HARD_STOP_ACTIONS
  <2>1. Action(t) \in ActionRequests /\ Action(t).type \in HARD_STOP_ACTIONS
      BY <1>1, <1>3 DEF HARD_STOP_ACTIONS
  <2> QED BY <1>2, <2>1, Zenon DEF Broad
<1> QED BY <1>4, <1>5, <1>6, <1>7, <1>8

(* The other arguments: none of them, or two snapshots and a threshold.    *)
Idle == 300

Watching(f, s) == [Plain EXCEPT !.snapshots = <<f, s>>, !.threshold = Idle]

LEMMA WatchingIs ==
    ASSUME NEW f \in ExecutionSnapshots, NEW s \in ExecutionSnapshots
    PROVE  LET x == Watching(f, s) IN
           x \in Extras /\ x.sequence = TRUE /\ x.snapshots = <<f, s>> /\ x.threshold = Idle
<1> DEFINE S == {None} \cup Seq(ExecutionSnapshots \cup {None})
           T == {None} \cup Int
           All == [sequence : BOOLEAN, snapshots : S, threshold : T]
           t == <<f, s>>
           x == Watching(f, s)
<1>1. Plain \in All /\ Plain.sequence = TRUE /\ t \in S /\ Idle \in T /\ Extras = All
    BY DEF Plain, Extras, Idle
<1>2. x = [Plain EXCEPT !.snapshots = t, !.threshold = Idle]
    BY DEF Watching
<1> HIDE DEF x, S, T, t
<1>3. /\ x \in All /\ x.sequence = TRUE /\ x.snapshots = t /\ x.threshold = Idle
    BY <1>1, <1>2
<1> QED BY <1>1, <1>3 DEF t, x

LEMMA ExtrasMean ==
    /\ Plain \in Extras /\ ~Refused(Plain) /\ ClassOf(SentinelResult(Plain)) = None
    /\ \A f, s \in ExecutionSnapshots :
          LET x == Watching(f, s) IN
          /\ x \in Extras
          /\ Refused(x) <=> ~Compares(f, s, 300)
          /\ Compares(f, s, 300) =>
                ClassOf(SentinelResult(x)) =
                    IF Progress(f, s) # {} THEN "REAL_PROGRESS"
                    ELSE IF s.blocked THEN "EXTERNAL_BLOCK"
                    ELSE IF s.credential \/ s.authorization THEN "LEGITIMATE_WAIT"
                    ELSE IF s.activity > f.activity THEN "ACTIVITY_WITHOUT_PROGRESS"
                    ELSE IF s.offset - f.offset >= 300 THEN "PROBABLE_INACTIVITY"
                    ELSE "INDETERMINATE"
<1>1. /\ Plain \in Extras /\ SentinelResult(Plain) = None
      /\ Plain = [sequence |-> TRUE, snapshots |-> None, threshold |-> None]
    BY DEF Plain, Extras, SentinelResult
<1>2. ~Refused(Plain) /\ ClassOf(None) = None
    BY <1>1, GateAssumption DEF Refused, ClassOf
<1>3. ASSUME NEW f \in ExecutionSnapshots, NEW s \in ExecutionSnapshots
      PROVE  LET x == Watching(f, s)
                 r == CompareSnapshots(f, s, 300)
             IN  /\ x \in Extras /\ SentinelResult(x) = r
                 /\ Refused(x) <=> r = Raised
  <2> DEFINE x == Watching(f, s)
             r == CompareSnapshots(f, s, 300)
  <2>1. <<f, s>> \in Seq(ExecutionSnapshots \cup {None}) /\ Len(<<f, s>>) = 2
      OBVIOUS
  <2>2. /\ x \in Extras
        /\ x.sequence = TRUE /\ x.snapshots = <<f, s>> /\ x.threshold = Idle
      BY WatchingIs, Zenon
  <2>3. <<f, s>> # None /\ Idle # None
    <3>1. None \notin Seq(ExecutionSnapshots \cup {None}) /\ None \notin Int
        BY GateAssumption
    <3>2. Idle \in Int
        BY DEF Idle
    <3> QED BY <2>1, <3>1, <3>2, Zenon
  <2> HIDE DEF r, x
  <2>4. SentinelResult(x) = r
      BY <2>2, <2>3 DEF SentinelResult, r, Idle
  <2>5. Refused(x) <=> r = Raised
      BY <2>1, <2>2, <2>3, <2>4 DEF Refused
  <2> QED BY <2>2, <2>4, <2>5 DEF r, x
<1>4. Raised \notin SentinelResults
    BY GateAssumption
<1> HIDE DEF Watching
<1> QED BY <1>1, <1>2, <1>3, <1>4, Classification DEF ClassOf

(* What the scenarios are built of, and what overwriting a field of one    *)
(* does.                                                                   *)
Names == {<<"w">>, <<"w", ".", "sk-">>}

Drafts == [name : Names, action : ActionRequests, opinions : Panels, extras : Extras,
           verdict : Verdicts, recommendation : Range(Recommendation),
           sentinel : {None} \cup SentinelClasses]

LEMMA Overwriting ==
    ASSUME NEW s \in Drafts
    PROVE  /\ \A n \in Names :
              LET d == [s EXCEPT !.name = n] IN
              /\ d \in Drafts
              /\ d.action = s.action /\ d.opinions = s.opinions /\ d.extras = s.extras
              /\ d.verdict = s.verdict /\ d.recommendation = s.recommendation
              /\ d.sentinel = s.sentinel
           /\ \A v \in Verdicts :
              LET d == [s EXCEPT !.verdict = v] IN
              /\ d \in Drafts /\ d.verdict = v
              /\ d.action = s.action /\ d.opinions = s.opinions /\ d.extras = s.extras
           /\ \A r \in Range(Recommendation) :
              LET d == [s EXCEPT !.recommendation = r] IN
              /\ d \in Drafts /\ d.recommendation = r
              /\ d.action = s.action /\ d.opinions = s.opinions /\ d.extras = s.extras
           /\ \A w \in {None} \cup SentinelClasses :
              LET d == [s EXCEPT !.sentinel = w] IN
              /\ d \in Drafts /\ d.sentinel = w
              /\ d.action = s.action /\ d.opinions = s.opinions /\ d.extras = s.extras
           /\ \A x \in Extras, w \in {None} \cup SentinelClasses :
              LET d == [s EXCEPT !.extras = x, !.sentinel = w] IN
              /\ d \in Drafts /\ d.extras = x /\ d.sentinel = w /\ d.name = s.name
              /\ d.action = s.action /\ d.opinions = s.opinions
              /\ d.verdict = s.verdict /\ d.recommendation = s.recommendation
<1> DEFINE R == Range(Recommendation)
           W == {None} \cup SentinelClasses
<1> HIDE DEF R, W
<1>1. /\ s \in [name : Names, action : ActionRequests, opinions : Panels, extras : Extras,
                verdict : Verdicts, recommendation : R, sentinel : W]
      /\ \A d : d \in Drafts <=>
             d \in [name : Names, action : ActionRequests, opinions : Panels, extras : Extras,
                   verdict : Verdicts, recommendation : R, sentinel : W]
    BY DEF Drafts, R, W
<1>2. ASSUME NEW n \in Names
      PROVE  LET d == [s EXCEPT !.name = n] IN
             /\ d \in Drafts
             /\ d.action = s.action /\ d.opinions = s.opinions /\ d.extras = s.extras
             /\ d.verdict = s.verdict /\ d.recommendation = s.recommendation
             /\ d.sentinel = s.sentinel
    BY <1>1
<1>3. ASSUME NEW v \in Verdicts
      PROVE  LET d == [s EXCEPT !.verdict = v] IN
             /\ d \in Drafts /\ d.verdict = v
             /\ d.action = s.action /\ d.opinions = s.opinions /\ d.extras = s.extras
    BY <1>1
<1>4. ASSUME NEW r \in R
      PROVE  LET d == [s EXCEPT !.recommendation = r] IN
             /\ d \in Drafts /\ d.recommendation = r
             /\ d.action = s.action /\ d.opinions = s.opinions /\ d.extras = s.extras
    BY <1>1
<1>5. ASSUME NEW w \in W
      PROVE  LET d == [s EXCEPT !.sentinel = w] IN
             /\ d \in Drafts /\ d.sentinel = w
             /\ d.action = s.action /\ d.opinions = s.opinions /\ d.extras = s.extras
    BY <1>1
<1>6. ASSUME NEW x \in Extras, NEW w \in W
      PROVE  LET d == [s EXCEPT !.extras = x, !.sentinel = w] IN
             /\ d \in Drafts /\ d.extras = x /\ d.sentinel = w /\ d.name = s.name
             /\ d.action = s.action /\ d.opinions = s.opinions
             /\ d.verdict = s.verdict /\ d.recommendation = s.recommendation
    BY <1>1
<1> QED BY <1>2, <1>3, <1>4, <1>5, <1>6, Zenon DEF R, W

(* The panel with one place taken by something else.                       *)
Put(i, o) == [Panel EXCEPT ![i] = o]

(* The panels of the shipped scenarios, and the one that makes aggregate   *)
(* raise.                                                                  *)
LEMMA PanelsAre ==
    /\ Fit(Panel) /\ \A k \in 1..4 : Panel[k].score < 40
    /\ \A p \in {[k \in 1..4 |-> [Panel[k] EXCEPT !.class = "EDGE"]],
                 [Panel EXCEPT ![1].veto = TRUE], [Panel EXCEPT ![4].score = 50]} :
          p \in FourOpinions /\ ~Fit(p)
    /\ LET p == [Panel EXCEPT ![2] = NotAnOpinion] IN
       p \in Panels /\ Selection(p) = "AGGREGATION_ERROR"
<1> DEFINE edge == [k \in 1..4 |-> [Panel[k] EXCEPT !.class = "EDGE"]]
           vetoing == [Panel EXCEPT ![1].veto = TRUE]
           diverging == [Panel EXCEPT ![4].score = 50]
           broken == [Panel EXCEPT ![2] = NotAnOpinion]
<1>1. /\ Panel \in FourOpinions /\ Panel \in Panels
      /\ DOMAIN Panel = 1..4 /\ Len(Panel) = 4
      /\ \A k \in 1..4 : /\ Panel[k] \in CouncilOpinions
                         /\ Panel[k].class = "FRONTIER" /\ Panel[k].score = 10
                         /\ ~Panel[k].veto
    BY PanelIs DEF FourOpinions
<1>2. Fit(Panel)
    BY <1>1 DEF Fit, Eligible
<1>3. ASSUME NEW o \in CouncilOpinions
      PROVE  /\ LET e == [o EXCEPT !.class = "EDGE"] IN
                e \in CouncilOpinions /\ e.role = o.role /\ ~Eligible(e)
             /\ LET e == [o EXCEPT !.veto = TRUE] IN
                e \in CouncilOpinions /\ e.role = o.role /\ e.veto = TRUE
             /\ LET e == [o EXCEPT !.score = 50] IN
                e \in CouncilOpinions /\ e.role = o.role /\ e.score = 50
  <2>1. "EDGE" \in Classes /\ 50 \in Scores
      BY DEF Classes, Scores
  <2>2. \A e : e.class = "EDGE" => ~Eligible(e)
      BY DEF Eligible
  <2> QED BY <2>1, <2>2 DEF CouncilOpinions
<1>4. ASSUME NEW q \in Panels, Len(q) = 4,
             \A k \in 1..4 : q[k] \in CouncilOpinions /\ q[k].role = Panel[k].role
      PROVE  q \in FourOpinions
    BY <1>1, <1>4 DEF FourOpinions
<1>5. edge \in FourOpinions /\ ~Fit(edge)
  <2>1. \A k \in 1..4 : edge[k] \in CouncilOpinions /\ edge[k].role = Panel[k].role
                        /\ ~Eligible(edge[k])
      BY <1>1, <1>3
  <2>2. edge \in Panels /\ Len(edge) = 4
      BY <2>1 DEF Panels
  <2>3. 1 \in 1..4
      OBVIOUS
  <2> HIDE DEF edge
  <2> QED BY <1>4, <2>1, <2>2, <2>3 DEF Fit
<1>6. ASSUME NEW i \in 1..4, NEW o \in CouncilOpinions \cup {NotAnOpinion}
      PROVE  /\ Put(i, o) \in Panels /\ Len(Put(i, o)) = 4
             /\ \A k \in 1..4 : Put(i, o)[k] = IF k = i THEN o ELSE Panel[k]
  <2> DEFINE S == CouncilOpinions \cup {NotAnOpinion}
  <2>1. i \in 1..Len(Panel) /\ Panel \in Seq(S)
      BY <1>1 DEF Panels
  <2> HIDE DEF S
  <2>2. /\ Put(i, o) \in Seq(S)
        /\ Len(Put(i, o)) = Len(Panel)
        /\ \A j \in 1..Len(Panel) : Put(i, o)[j] = IF j = i THEN o ELSE Panel[j]
    <3>1. o \in S
        BY DEF S
    <3> QED BY <2>1, <3>1, ExceptSeq DEF Put
  <2> QED BY <1>1, <2>2 DEF Panels, S
<1>7. vetoing \in FourOpinions /\ ~Fit(vetoing)
  <2> DEFINE o == [Panel[1] EXCEPT !.veto = TRUE]
  <2>1. vetoing = Put(1, o) /\ 1 \in 1..4
      BY DEF Put
  <2>2. o \in CouncilOpinions /\ o.role = Panel[1].role /\ o.veto = TRUE
      BY <1>1, <1>3, <2>1, Zenon
  <2> HIDE DEF vetoing, o
  <2>3. /\ vetoing \in Panels /\ Len(vetoing) = 4
        /\ \A k \in 1..4 : vetoing[k] = IF k = 1 THEN o ELSE Panel[k]
      BY <1>6, <2>1, <2>2
  <2> QED BY <1>1, <1>4, <2>1, <2>2, <2>3 DEF Fit
<1>8. diverging \in FourOpinions /\ ~Fit(diverging)
  <2> DEFINE o == [Panel[4] EXCEPT !.score = 50]
  <2>1. diverging = Put(4, o) /\ 4 \in 1..4
      BY DEF Put
  <2>2. o \in CouncilOpinions /\ o.role = Panel[4].role /\ o.score = 50
      BY <1>1, <1>3, <2>1, Zenon
  <2> HIDE DEF diverging, o
  <2>3. /\ diverging \in Panels /\ Len(diverging) = 4
        /\ \A k \in 1..4 : diverging[k] = IF k = 4 THEN o ELSE Panel[k]
      BY <1>6, <2>1, <2>2
  <2>4. diverging[4].score - diverging[1].score = 40
      BY <1>1, <2>1, <2>2, <2>3
  <2>5. ~Fit(diverging)
    <3>1. 1 \in 1..4 /\ ~(40 <= 30)
        OBVIOUS
    <3> QED BY <2>1, <2>4, <3>1 DEF Fit
  <2> QED BY <1>1, <1>4, <2>2, <2>3, <2>5
<1>9. broken \in Panels /\ Selection(broken) = "AGGREGATION_ERROR"
  <2>1. /\ broken \in Panels
        /\ \A k \in 1..4 : broken[k] = IF k = 2 THEN NotAnOpinion ELSE Panel[k]
    <3>1. broken = Put(2, NotAnOpinion) /\ 2 \in 1..4
        BY DEF Put
    <3> HIDE DEF broken
    <3> QED BY <1>6, <3>1
  <2>2. DOMAIN broken = 1..4
      BY <1>1
  <2> HIDE DEF broken
  <2>3. \A k \in 1..4 : Eligible(Panel[k]) /\ Panel[k] # NotAnOpinion
      BY <1>1, GateAssumption DEF Eligible
  <2>4. Spoilers(broken) = {2}
      BY <2>1, <2>2, <2>3 DEF Spoilers
  <2>5. Min(Spoilers(broken)) = 2
    <3>1. Spoilers(broken) \in SUBSET Nat /\ Spoilers(broken) # {}
        BY <2>4
    <3> QED BY <2>4, <3>1, MinOfScores
  <2> QED BY <2>1, <2>4, <2>5 DEF Selection
<1> QED BY <1>1, <1>2, <1>5, <1>7, <1>8, <1>9

(* The snapshots of the shipped scenarios, and one that was taken earlier. *)
LEMMA SnapshotsAre ==
    LET Seen(s) == Watching(Snapshot(10), s)
        Says(s) == ClassOf(SentinelResult(Seen(s)))
        moved == [Snapshot(20) EXCEPT !.progress = 2, !.activity = 2]
        silent == Snapshot(350)
        asking == [Snapshot(350) EXCEPT !.authorization = TRUE]
        locked == [Snapshot(350) EXCEPT !.credential = TRUE]
        early == [Snapshot(350) EXCEPT !.offset = 9]
    IN  /\ \A s \in {moved, silent, asking, locked} : Seen(s) \in Extras /\ ~Refused(Seen(s))
        /\ Says(moved) = "REAL_PROGRESS" /\ Says(silent) = "PROBABLE_INACTIVITY"
        /\ Says(asking) = "LEGITIMATE_WAIT" /\ Says(locked) = "LEGITIMATE_WAIT"
        /\ Seen(early) \in Extras /\ Refused(Seen(early))
<1> DEFINE first == Snapshot(10)
           moved == [Snapshot(20) EXCEPT !.progress = 2, !.activity = 2]
           silent == Snapshot(350)
           asking == [Snapshot(350) EXCEPT !.authorization = TRUE]
           locked == [Snapshot(350) EXCEPT !.credential = TRUE]
           early == [Snapshot(350) EXCEPT !.offset = 9]
           Like(s, o) == /\ s \in ExecutionSnapshots /\ s.attempt = 1 /\ s.utc = 0
                         /\ s.artifact = 0 /\ s.offset = o
                         /\ s.blocked = FALSE /\ s.terminal = FALSE
           Still(s) == s.progress = 1 /\ s.activity = 1
<1>1. ASSUME NEW o \in Nat
      PROVE  /\ Like(Snapshot(o), o) /\ Still(Snapshot(o))
             /\ Snapshot(o).authorization = FALSE /\ Snapshot(o).credential = FALSE
    BY DEF Snapshot, ExecutionSnapshots
<1>2. /\ Like(first, 10) /\ Still(first)
      /\ Like(silent, 350) /\ Still(silent)
      /\ silent.authorization = FALSE /\ silent.credential = FALSE
  <2>1. 10 \in Nat /\ 350 \in Nat
      OBVIOUS
  <2> HIDE DEF Like, Still, first, moved, silent, asking, locked, early
  <2>2. Like(Snapshot(10), 10) /\ Still(Snapshot(10))
      BY <1>1, <2>1
  <2>3. /\ Like(Snapshot(350), 350) /\ Still(Snapshot(350))
        /\ Snapshot(350).authorization = FALSE /\ Snapshot(350).credential = FALSE
      BY <1>1, <2>1
  <2> QED BY <2>2, <2>3, Zenon DEF first, silent
<1>3. Like(moved, 20) /\ moved.progress = 2 /\ moved.activity = 2
  <2> DEFINE s == Snapshot(20)
             m == [s EXCEPT !.progress = 2, !.activity = 2]
  <2>1. Like(s, 20) /\ Still(s)
    <3>1. 20 \in Nat
        OBVIOUS
    <3> HIDE DEF Like, Still
    <3> QED BY <1>1, <3>1
  <2> HIDE DEF s
  <2>2. Like(m, 20) /\ m.progress = 2 /\ m.activity = 2
      BY <2>1 DEF ExecutionSnapshots
  <2> QED BY <2>2, Zenon DEF s
<1>4. Like(asking, 350) /\ Still(asking) /\ asking.authorization = TRUE
  <2> DEFINE s == Snapshot(350)
             m == [s EXCEPT !.authorization = TRUE]
  <2>1. Like(s, 350) /\ Still(s)
    <3>1. 350 \in Nat
        OBVIOUS
    <3> HIDE DEF Like, Still
    <3> QED BY <1>1, <3>1
  <2> HIDE DEF s
  <2>2. Like(m, 350) /\ Still(m) /\ m.authorization = TRUE
      BY <2>1 DEF ExecutionSnapshots
  <2> QED BY <2>2, Zenon DEF s
<1>5. Like(locked, 350) /\ Still(locked) /\ locked.credential = TRUE
  <2> DEFINE s == Snapshot(350)
             m == [s EXCEPT !.credential = TRUE]
  <2>1. Like(s, 350) /\ Still(s)
    <3>1. 350 \in Nat
        OBVIOUS
    <3> HIDE DEF Like, Still
    <3> QED BY <1>1, <3>1
  <2> HIDE DEF s
  <2>2. Like(m, 350) /\ Still(m) /\ m.credential = TRUE
      BY <2>1 DEF ExecutionSnapshots
  <2> QED BY <2>2, Zenon DEF s
<1>6. Like(early, 9)
  <2> DEFINE s == Snapshot(350)
             m == [s EXCEPT !.offset = 9]
  <2>1. Like(s, 350) /\ Still(s)
    <3>1. 350 \in Nat
        OBVIOUS
    <3> HIDE DEF Like, Still
    <3> QED BY <1>1, <3>1
  <2> HIDE DEF s
  <2>2. Like(m, 9)
      BY <2>1 DEF ExecutionSnapshots
  <2> QED BY <2>2, Zenon DEF s
<1> HIDE DEF first, moved, silent, asking, locked, early
<1>7. /\ \A s \in {moved, silent, asking, locked} : Compares(first, s, 300)
      /\ ~Compares(first, early, 300)
    BY <1>2, <1>3, <1>4, <1>5, <1>6, ComparableMeans DEF Compares
<1>8. /\ Progress(first, moved) # {} /\ Progress(first, silent) = {}
      /\ Progress(first, asking) = {} /\ Progress(first, locked) = {}
    BY <1>2, <1>3, <1>4, <1>5, ProgressMeans
<1>9. /\ \A s \in {moved, silent, asking, locked} :
              LET x == Watching(first, s) IN x \in Extras /\ ~Refused(x)
       /\ Watching(first, early) \in Extras /\ Refused(Watching(first, early))
    BY <1>2, <1>3, <1>4, <1>5, <1>6, <1>7, ExtrasMean
<1>10. ClassOf(SentinelResult(Watching(first, moved))) = "REAL_PROGRESS"
    BY <1>2, <1>3, <1>7, <1>8, ExtrasMean
<1>11. ClassOf(SentinelResult(Watching(first, silent))) = "PROBABLE_INACTIVITY"
    BY <1>2, <1>7, <1>8, ExtrasMean
<1>12. ClassOf(SentinelResult(Watching(first, asking))) = "LEGITIMATE_WAIT"
    BY <1>2, <1>4, <1>7, <1>8, ExtrasMean
<1>13. ClassOf(SentinelResult(Watching(first, locked))) = "LEGITIMATE_WAIT"
    BY <1>2, <1>5, <1>7, <1>8, ExtrasMean
<1> QED BY <1>9, <1>10, <1>11, <1>12, <1>13 DEF first, moved, silent, asking, locked, early

LEMMA ScenarioIs ==
    ASSUME NEW a \in ActionRequests, NEW p \in Panels, NEW v \in Verdicts
    PROVE  LET s == Scenario(a, p, v) IN
           /\ s \in Drafts /\ s.name = <<"w">>
           /\ s.action = a /\ s.opinions = p /\ s.extras = Plain
           /\ s.verdict = v /\ s.recommendation = Recommendation[v] /\ s.sentinel = None
<1>1. Scenario(a, p, v) =
         [name |-> <<"w">>, action |-> a, opinions |-> p, extras |-> Plain,
          verdict |-> v, recommendation |-> Recommendation[v], sentinel |-> None]
    BY DEF Scenario
<1>2. <<"w">> \in Names /\ Plain \in Extras
    BY ExtrasMean DEF Names
<1>3. Recommendation[v] \in Range(Recommendation)
    BY DEF Recommendation, Range, Verdicts
<1> HIDE DEF Panels
<1> QED BY <1>1, <1>2, <1>3 DEF Drafts

(* When a scenario passes whose decision is known.                         *)
LEMMA PassesWhen ==
    ASSUME NEW s \in Drafts, NEW d,
           d = Aggregate(Assess(s.action), s.opinions, s.action.environment), d # Raised
    PROVE  Passed(s) <=> /\ ~Refused(s.extras)
                         /\ s.verdict = d.verdict
                         /\ s.recommendation = Recommendation[d.verdict]
                         /\ s.sentinel = ClassOf(SentinelResult(s.extras))
<1>1. s.action \in ActionRequests /\ s.opinions \in Panels /\ s.extras \in Extras
    BY DEF Drafts
<1> QED BY <1>1, PassedMeans, Zenon

(* A harmless request before a panel without objections is a candidate.    *)
LEMMA LowPasses ==
    ASSUME NEW s \in Drafts, s.action = Low, s.opinions = Panel
    PROVE  Passed(s) <=> /\ ~Refused(s.extras)
                         /\ s.verdict = "SHADOW_AUTOAPPROVE_CANDIDATE"
                         /\ s.recommendation = "RECOMMEND_SHADOW_CANDIDATE_ONLY"
                         /\ s.sentinel = ClassOf(SentinelResult(s.extras))
<1> DEFINE d == Aggregate(Assess(Low), Panel, Low.environment)
<1>1. d # Raised /\ d.verdict = "SHADOW_AUTOAPPROVE_CANDIDATE"
    BY RequestsAre, PanelIs, PanelsAre, FourDecide
<1>2. Recommendation["SHADOW_AUTOAPPROVE_CANDIDATE"] = "RECOMMEND_SHADOW_CANDIDATE_ONLY"
    BY DEF Recommendation
<1> HIDE DEF d
<1>3. d = Aggregate(Assess(s.action), s.opinions, s.action.environment)
    BY DEF d
<1> QED BY <1>1, <1>2, <1>3, PassesWhen

(* A scenario without snapshots passes when it expects what is decided.    *)
LEMMA ScenarioPasses ==
    ASSUME NEW a \in ActionRequests, NEW p \in FourOpinions, NEW v \in Verdicts,
           Aggregate(Assess(a), p, a.environment).verdict = v
    PROVE  Passed(Scenario(a, p, v))
<1> DEFINE s == Scenario(a, p, v)
           d == Aggregate(Assess(a), p, a.environment)
<1>1. p \in Panels
    BY DEF FourOpinions
<1>2. /\ s \in Drafts
      /\ s.action = a /\ s.opinions = p /\ s.extras = Plain
      /\ s.verdict = v /\ s.recommendation = Recommendation[v] /\ s.sentinel = None
    BY <1>1, ScenarioIs
<1>3. d # Raised /\ d.verdict = v
    BY FourDecide
<1> HIDE DEF s, d
<1>4. d = Aggregate(Assess(s.action), s.opinions, s.action.environment)
    BY <1>2 DEF d
<1>5. ~Refused(Plain) /\ ClassOf(SentinelResult(Plain)) = None
    BY ExtrasMean
<1>6. Passed(s)
    BY <1>2, <1>3, <1>4, <1>5, PassesWhen
<1> QED BY <1>6 DEF s

LEMMA ObservedPasses ==
    ASSUME NEW f, Watching(Snapshot(10), f) \in Extras, NEW c \in SentinelClasses
    PROVE  /\ Observed(f, c) \in Drafts /\ Observed(f, c).name = <<"w">>
           /\ Observed(f, c).action = Low /\ Observed(f, c).opinions = Panel
           /\ Observed(f, c).extras = Watching(Snapshot(10), f)
           /\ Observed(f, c).verdict = "SHADOW_AUTOAPPROVE_CANDIDATE"
           /\ Observed(f, c).recommendation = "RECOMMEND_SHADOW_CANDIDATE_ONLY"
           /\ Observed(f, c).sentinel = c
<1> DEFINE s == Scenario(Low, Panel, "SHADOW_AUTOAPPROVE_CANDIDATE")
           x == Watching(Snapshot(10), f)
<1>1. Observed(f, c) = [s EXCEPT !.extras = x, !.sentinel = c]
    BY DEF Observed, Watching, Idle
<1>2. /\ s \in Drafts /\ s.name = <<"w">>
      /\ s.action = Low /\ s.opinions = Panel /\ s.verdict = "SHADOW_AUTOAPPROVE_CANDIDATE"
      /\ s.recommendation = "RECOMMEND_SHADOW_CANDIDATE_ONLY"
  <2>1. /\ "SHADOW_AUTOAPPROVE_CANDIDATE" \in Verdicts
        /\ Recommendation["SHADOW_AUTOAPPROVE_CANDIDATE"] = "RECOMMEND_SHADOW_CANDIDATE_ONLY"
      BY DEF Verdicts, Recommendation
  <2>2. Low \in ActionRequests /\ Panel \in Panels
      BY RequestsAre, PanelIs DEF FourOpinions
  <2> QED BY <2>1, <2>2, ScenarioIs
<1>3. x \in Extras /\ c \in {None} \cup SentinelClasses
    OBVIOUS
<1> HIDE DEF s, x
<1>4. LET d == [s EXCEPT !.extras = x, !.sentinel = c] IN
      /\ d \in Drafts /\ d.extras = x /\ d.sentinel = c /\ d.name = s.name
      /\ d.action = s.action /\ d.opinions = s.opinions
      /\ d.verdict = s.verdict /\ d.recommendation = s.recommendation
  <2>1. \A y \in Extras, w \in {None} \cup SentinelClasses :
            LET d == [s EXCEPT !.extras = y, !.sentinel = w] IN
            /\ d \in Drafts /\ d.extras = y /\ d.sentinel = w /\ d.name = s.name
            /\ d.action = s.action /\ d.opinions = s.opinions
            /\ d.verdict = s.verdict /\ d.recommendation = s.recommendation
    <3>1. s \in Drafts
        BY <1>2
    <3> QED BY <3>1, Overwriting, Zenon
  <2> QED BY <1>3, <2>1, Zenon
<1> QED BY <1>1, <1>2, <1>4 DEF x

(* The twelve, one by one.                                                 *)
LEMMA TheTwelve ==
    /\ DOMAIN SCENARIOS = 1..12 /\ SCENARIOS \in Seq(Shipped) /\ Len(SCENARIOS) = 12
    /\ SCENARIOS[1] = Scenario(Low, Panel, "SHADOW_AUTOAPPROVE_CANDIDATE")
    /\ SCENARIOS[2] = Scenario(Developing, Panel, "HUMAN_REQUIRED")
    /\ SCENARIOS[3] = Scenario(Action("REQUEST_SUDO"), Panel, "STOP_AND_HUMAN")
    /\ SCENARIOS[4] = Scenario(Broad("DATABASE_DROP"), Panel, "STOP_AND_HUMAN")
    /\ SCENARIOS[5] = Scenario(Broad("DELETE_BROAD_PATH"), Panel, "STOP_AND_HUMAN")
    /\ SCENARIOS[6] = Scenario(Low, [k \in 1..4 |-> [Panel[k] EXCEPT !.class = "EDGE"]],
                               "HUMAN_REQUIRED")
    /\ SCENARIOS[7] = Scenario(Low, [Panel EXCEPT ![1].veto = TRUE], "HUMAN_REQUIRED")
    /\ SCENARIOS[8] = Scenario(Low, [Panel EXCEPT ![4].score = 50], "HUMAN_REQUIRED")
    /\ SCENARIOS[9] = Observed([Snapshot(20) EXCEPT !.progress = 2, !.activity = 2],
                               "REAL_PROGRESS")
    /\ SCENARIOS[10] = Observed(Snapshot(350), "PROBABLE_INACTIVITY")
    /\ SCENARIOS[11] = Observed([Snapshot(350) EXCEPT !.authorization = TRUE],
                                "LEGITIMATE_WAIT")
    /\ SCENARIOS[12] = Observed([Snapshot(350) EXCEPT !.credential = TRUE], "LEGITIMATE_WAIT")
<1>1. DOMAIN SCENARIOS = 1..12 /\ Len(SCENARIOS) = 12
    BY DEF SCENARIOS
<1>2. SCENARIOS \in Seq(Shipped)
  <2>1. SCENARIOS = [k \in 1..12 |-> SCENARIOS[k]]
      BY DEF SCENARIOS
  <2>2. \A k \in 1..12 : SCENARIOS[k] \in Shipped
      BY <1>1 DEF Shipped, Range
  <2> QED BY <2>1, <2>2
<1> QED BY <1>1, <1>2 DEF SCENARIOS, Developing

LEMMA ScenariosPass ==
    \A k \in 1..12 : /\ SCENARIOS[k] \in Drafts /\ SCENARIOS[k].name = <<"w">>
                     /\ Passed(SCENARIOS[k])
<1> DEFINE Unfit == {[k \in 1..4 |-> [Panel[k] EXCEPT !.class = "EDGE"]],
                     [Panel EXCEPT ![1].veto = TRUE], [Panel EXCEPT ![4].score = 50]}
           Stops == {Action("REQUEST_SUDO"), Broad("DATABASE_DROP"), Broad("DELETE_BROAD_PATH")}
           Good(s) == s \in Drafts /\ s.name = <<"w">> /\ Passed(s)
<1>1. {"SHADOW_AUTOAPPROVE_CANDIDATE", "HUMAN_REQUIRED", "STOP_AND_HUMAN"} \subseteq Verdicts
    BY DEF Verdicts
<1>2. Panel \in FourOpinions /\ Low \in ActionRequests /\ Developing \in ActionRequests
    BY PanelIs, RequestsAre
<1>3. ASSUME NEW a \in ActionRequests, NEW p \in FourOpinions, NEW v \in Verdicts,
             Aggregate(Assess(a), p, a.environment).verdict = v
      PROVE  Good(Scenario(a, p, v))
  <2>1. p \in Panels
      BY DEF FourOpinions
  <2> QED BY <1>3, <2>1, ScenarioPasses, ScenarioIs
<1>4. /\ Aggregate(Assess(Low), Panel, Low.environment).verdict = "SHADOW_AUTOAPPROVE_CANDIDATE"
      /\ Aggregate(Assess(Developing), Panel, Developing.environment).verdict = "HUMAN_REQUIRED"
    BY <1>2, RequestsAre, PanelsAre, FourDecide
<1>5. \A a \in Stops : /\ a \in ActionRequests
                       /\ Aggregate(Assess(a), Panel, a.environment).verdict = "STOP_AND_HUMAN"
    BY <1>2, RequestsAre, FourDecide
<1>6. \A p \in Unfit : /\ p \in FourOpinions
                       /\ Aggregate(Assess(Low), p, Low.environment).verdict = "HUMAN_REQUIRED"
    BY <1>2, RequestsAre, PanelsAre, FourDecide
<1>7. ASSUME NEW f, NEW c \in SentinelClasses, Watching(Snapshot(10), f) \in Extras,
             ~Refused(Watching(Snapshot(10), f)),
             ClassOf(SentinelResult(Watching(Snapshot(10), f))) = c
      PROVE  Good(Observed(f, c))
    BY <1>7, ObservedPasses, LowPasses
<1>8. {"REAL_PROGRESS", "PROBABLE_INACTIVITY", "LEGITIMATE_WAIT"} \subseteq SentinelClasses
    BY DEF SentinelClasses
<1> HIDE DEF Good
<1>9. Good(SCENARIOS[1]) /\ Good(SCENARIOS[2])
    BY <1>1, <1>2, <1>3, <1>4, TheTwelve
<1>10. Good(SCENARIOS[3]) /\ Good(SCENARIOS[4]) /\ Good(SCENARIOS[5])
    BY <1>1, <1>2, <1>3, <1>5, TheTwelve
<1>11. Good(SCENARIOS[6]) /\ Good(SCENARIOS[7]) /\ Good(SCENARIOS[8])
    BY <1>1, <1>2, <1>3, <1>6, TheTwelve
<1>12. Good(SCENARIOS[9]) /\ Good(SCENARIOS[10])
    BY <1>7, <1>8, SnapshotsAre, TheTwelve
<1>13. Good(SCENARIOS[11]) /\ Good(SCENARIOS[12])
    BY <1>7, <1>8, SnapshotsAre, TheTwelve
<1>14. \A k \in 1..12 : Good(SCENARIOS[k])
    BY <1>9, <1>10, <1>11, <1>12, <1>13
<1> QED BY <1>14 DEF Good

(* What the shipped scenarios hold, as far as the failing ones need it.    *)
LEMMA OneThreeTen ==
    /\ \A k \in {1, 3, 10} : SCENARIOS[k] \in Drafts
    /\ \A k \in {1, 10} :
          /\ SCENARIOS[k].action = Low /\ SCENARIOS[k].opinions = Panel
          /\ SCENARIOS[k].verdict = "SHADOW_AUTOAPPROVE_CANDIDATE"
          /\ SCENARIOS[k].recommendation = "RECOMMEND_SHADOW_CANDIDATE_ONLY"
    /\ SCENARIOS[1].extras = Plain /\ SCENARIOS[3].extras = Plain
    /\ SCENARIOS[10].extras = Watching(Snapshot(10), Snapshot(350))
<1>1. /\ "SHADOW_AUTOAPPROVE_CANDIDATE" \in Verdicts /\ "STOP_AND_HUMAN" \in Verdicts
      /\ Recommendation["SHADOW_AUTOAPPROVE_CANDIDATE"] = "RECOMMEND_SHADOW_CANDIDATE_ONLY"
      /\ "PROBABLE_INACTIVITY" \in SentinelClasses
    BY DEF Verdicts, Recommendation, SentinelClasses
<1>2. Low \in ActionRequests /\ Action("REQUEST_SUDO") \in ActionRequests /\ Panel \in Panels
    BY RequestsAre, PanelIs DEF FourOpinions
<1>3. Watching(Snapshot(10), Snapshot(350)) \in Extras
    BY SnapshotsAre
<1> QED BY <1>1, <1>2, <1>3, TheTwelve, ScenarioIs, ObservedPasses

(* It passes, whatever it is called.                                       *)
LEMMA UnpublishablePasses == Passed(Unpublishable)
<1> DEFINE s == SCENARIOS[1]
<1>1. s \in Drafts /\ Passed(s) /\ s.action = Low /\ s.opinions = Panel
    BY ScenariosPass, OneThreeTen
<1>2. <<"w", ".", "sk-">> \in Names
    BY DEF Names
<1>3. Unpublishable = [s EXCEPT !.name = <<"w", ".", "sk-">>]
    BY DEF Unpublishable
<1> HIDE DEF s
<1>4. /\ Unpublishable \in Drafts
      /\ Unpublishable.action = s.action /\ Unpublishable.opinions = s.opinions
      /\ Unpublishable.extras = s.extras /\ Unpublishable.verdict = s.verdict
      /\ Unpublishable.recommendation = s.recommendation
      /\ Unpublishable.sentinel = s.sentinel
  <2>1. \A n \in Names :
            LET d == [s EXCEPT !.name = n] IN
            /\ d \in Drafts
            /\ d.action = s.action /\ d.opinions = s.opinions /\ d.extras = s.extras
            /\ d.verdict = s.verdict /\ d.recommendation = s.recommendation
            /\ d.sentinel = s.sentinel
      BY <1>1, Overwriting, Zenon
  <2> QED BY <1>2, <1>3, <2>1, Zenon
<1> QED BY <1>1, <1>4, LowPasses

(* Not one of the failing scenarios passes.                                *)
LEMMA FailingFail == \A s \in Failing : ~Passed(s)
<1> DEFINE one == SCENARIOS[1]
           three == SCENARIOS[3]
           ten == SCENARIOS[10]
           x == ten.extras
<1>1. /\ one \in Drafts /\ three \in Drafts /\ ten \in Drafts
      /\ one.action = Low /\ one.opinions = Panel /\ ten.action = Low /\ ten.opinions = Panel
      /\ one.extras = Plain /\ three.extras = Plain
      /\ ten.extras = Watching(Snapshot(10), Snapshot(350))
    BY OneThreeTen
<1>2. /\ "HUMAN_REQUIRED" \in Verdicts /\ "RECOMMEND_HUMAN_REVIEW" \in Range(Recommendation)
      /\ {"INDETERMINATE", None, "REAL_PROGRESS"} \subseteq {None} \cup SentinelClasses
      /\ None \notin SentinelClasses
    BY GateAssumption DEF Verdicts, Range, Recommendation, SentinelClasses
<1>3. /\ ClassOf(SentinelResult(Plain)) = None
      /\ ClassOf(SentinelResult(ten.extras)) = "PROBABLE_INACTIVITY"
    BY <1>1, ExtrasMean, SnapshotsAre
<1> HIDE DEF one, three, ten
<1>4. ASSUME NEW v \in Verdicts, v # "SHADOW_AUTOAPPROVE_CANDIDATE"
      PROVE  ~Passed([one EXCEPT !.verdict = v])
  <2> DEFINE d == [one EXCEPT !.verdict = v]
  <2>1. /\ d \in Drafts /\ d.verdict = v
        /\ d.action = one.action /\ d.opinions = one.opinions /\ d.extras = one.extras
      BY <1>1, Overwriting, Zenon
  <2> HIDE DEF d
  <2>2. ~Passed(d)
      BY <1>1, <1>4, <2>1, LowPasses
  <2> QED BY <2>2 DEF d
<1>5. ASSUME NEW r \in Range(Recommendation), r # "RECOMMEND_SHADOW_CANDIDATE_ONLY"
      PROVE  ~Passed([one EXCEPT !.recommendation = r])
  <2> DEFINE d == [one EXCEPT !.recommendation = r]
  <2>1. /\ d \in Drafts /\ d.recommendation = r
        /\ d.action = one.action /\ d.opinions = one.opinions /\ d.extras = one.extras
    <3>1. \A q \in Range(Recommendation) :
             LET e == [one EXCEPT !.recommendation = q] IN
             /\ e \in Drafts /\ e.recommendation = q
             /\ e.action = one.action /\ e.opinions = one.opinions /\ e.extras = one.extras
      <4> HIDE DEF d
      <4> QED BY <1>1, Overwriting, Zenon
    <3> QED BY <3>1, Zenon
  <2> HIDE DEF d
  <2>2. ~Passed(d)
      BY <1>1, <1>5, <2>1, LowPasses
  <2> QED BY <2>2 DEF d
<1>6. ASSUME NEW s \in {one, ten}, NEW w \in {None} \cup SentinelClasses,
             w # ClassOf(SentinelResult(s.extras))
      PROVE  ~Passed([s EXCEPT !.sentinel = w])
  <2> DEFINE d == [s EXCEPT !.sentinel = w]
  <2>1. s \in Drafts /\ s.action = Low /\ s.opinions = Panel
      BY <1>1
  <2>2. /\ d \in Drafts /\ d.sentinel = w
        /\ d.action = s.action /\ d.opinions = s.opinions /\ d.extras = s.extras
      BY <2>1, Overwriting, Zenon
  <2> HIDE DEF d
  <2>3. ~Passed(d)
      BY <1>6, <2>1, <2>2, LowPasses
  <2> QED BY <2>3 DEF d
<1>7. /\ ~Passed([ten EXCEPT !.sentinel = "INDETERMINATE"])
      /\ ~Passed([ten EXCEPT !.sentinel = None])
      /\ ~Passed([one EXCEPT !.sentinel = "REAL_PROGRESS"])
  <2>1. /\ "INDETERMINATE" # "PROBABLE_INACTIVITY" /\ None # "PROBABLE_INACTIVITY"
        /\ "REAL_PROGRESS" # None
      BY <1>2 DEF SentinelClasses
  <2>2. /\ "INDETERMINATE" \in {None} \cup SentinelClasses
        /\ "REAL_PROGRESS" \in {None} \cup SentinelClasses
        /\ one \in {one, ten} /\ ten \in {one, ten}
      BY <1>2
  <2>3. /\ ClassOf(SentinelResult(one.extras)) = None
        /\ ClassOf(SentinelResult(ten.extras)) = "PROBABLE_INACTIVITY"
      BY <1>1, <1>3
  <2> QED BY <1>6, <2>1, <2>2, <2>3
<1>8. ASSUME NEW s \in Drafts, NEW d, d.action = s.action, d.opinions = s.opinions,
             d.extras \in Extras, Refused(d.extras)
      PROVE  ~Passed(d)
  <2>1. s.action \in ActionRequests /\ s.opinions \in Panels
      BY DEF Drafts
  <2> QED BY <1>8, <2>1, PassedMeans
<1>9. ~Passed([three EXCEPT !.extras.threshold = 300])
  <2> DEFINE d == [three EXCEPT !.extras.threshold = 300]
             e == [Plain EXCEPT !.threshold = 300]
  <2>1. d.action = three.action /\ d.opinions = three.opinions /\ d.extras = e
      BY <1>1 DEF Drafts
  <2>2. e \in Extras /\ e.snapshots = None /\ e.threshold = 300
    <3> DEFINE T == {None} \cup Int
               S == {None} \cup Seq(ExecutionSnapshots \cup {None})
               All == [sequence : BOOLEAN, snapshots : S, threshold : T]
    <3>1. Plain \in All /\ Plain.snapshots = None /\ Extras = All /\ 300 \in T
        BY DEF Plain, Extras
    <3> HIDE DEF S, T
    <3> QED BY <3>1
  <2>3. Refused(e)
    <3>1. 300 # None
        BY GateAssumption
    <3> HIDE DEF e
    <3> QED BY <2>2, <3>1 DEF Refused
  <2> HIDE DEF d, e
  <2>4. ~Passed(d)
      BY <1>1, <1>8, <2>1, <2>2, <2>3
  <2> QED BY <2>4 DEF d
<1>10. ~Passed([ten EXCEPT !.extras.snapshots[2].offset = 9])
  <2> DEFINE d == [ten EXCEPT !.extras.snapshots[2].offset = 9]
             f == Snapshot(10)
             g == Snapshot(350)
             early == [g EXCEPT !.offset = 9]
             e == [ten.extras EXCEPT !.snapshots = [ten.extras.snapshots EXCEPT ![2] =
                      [ten.extras.snapshots[2] EXCEPT !.offset = 9]]]
  <2>1. d.action = ten.action /\ d.opinions = ten.opinions /\ d.extras = e
      BY <1>1 DEF Drafts
  <2>2. /\ f \in ExecutionSnapshots /\ g \in ExecutionSnapshots
        /\ early \in ExecutionSnapshots
    <3>1. f \in ExecutionSnapshots /\ g \in ExecutionSnapshots
        BY DEF Snapshot, ExecutionSnapshots
    <3> HIDE DEF f, g
    <3> QED BY <3>1 DEF ExecutionSnapshots
  <2>3. e = Watching(f, early)
    <3> DEFINE S == {None} \cup Seq(ExecutionSnapshots \cup {None})
               T == {None} \cup Int
               was == ten.extras
               is == Watching(f, early)
    <3>1. was = Watching(f, g)
        BY <1>1
    <3>2. Extras = [sequence : BOOLEAN, snapshots : S, threshold : T]
        BY DEF Extras
    <3>3. /\ was \in Extras /\ was.sequence = TRUE
          /\ was.snapshots = <<f, g>> /\ was.threshold = Idle
      <4> HIDE DEF f, g, early, was
      <4> QED BY <2>2, <3>1, WatchingIs, Zenon
    <3>4. /\ is \in Extras /\ is.sequence = TRUE
          /\ is.snapshots = <<f, early>> /\ is.threshold = Idle
      <4> HIDE DEF f, g, early
      <4> QED BY <2>2, WatchingIs, Zenon
    <3>5. [was.snapshots EXCEPT ![2] = [was.snapshots[2] EXCEPT !.offset = 9]] = <<f, early>>
      <4> HIDE DEF was, f, g
      <4> QED BY <3>3
    <3> HIDE DEF S, T, was, is, f, early
    <3>6. [was EXCEPT !.snapshots = <<f, early>>] = is
        BY <3>2, <3>3, <3>4
    <3>7. e = [was EXCEPT !.snapshots = <<f, early>>]
        BY <3>5 DEF was
    <3> QED BY <3>6, <3>7 DEF is
  <2>4. Watching(f, early) \in Extras /\ Refused(Watching(f, early))
      BY SnapshotsAre
  <2> HIDE DEF d, e, f, early
  <2>5. ~Passed(d)
      BY <1>1, <1>8, <2>1, <2>3, <2>4
  <2> QED BY <2>5 DEF d
<1>11. ~Passed([one EXCEPT !.opinions[2] = NotAnOpinion])
  <2> DEFINE d == [one EXCEPT !.opinions[2] = NotAnOpinion]
             p == [Panel EXCEPT ![2] = NotAnOpinion]
  <2>1. d.action = Low /\ d.opinions = p /\ d.extras = Plain
      BY <1>1 DEF Drafts
  <2>2. p \in Panels /\ Selection(p) = "AGGREGATION_ERROR"
      BY PanelsAre
  <2> HIDE DEF d, p
  <2>3. Aggregate(Assess(Low), p, Low.environment) = Raised
    <3>1. Low \in ActionRequests /\ ~IsHardStop(Assess(Low))
        BY RequestsAre, AssessMeans
    <3> QED BY <2>2, <3>1 DEF Aggregate
  <2>4. ~Passed(d)
      BY <2>1, <2>2, <2>3, RequestsAre, ExtrasMean, PassedMeans
  <2> QED BY <2>4 DEF d
<1>12. /\ ~Passed([one EXCEPT !.verdict = "HUMAN_REQUIRED"])
       /\ ~Passed([one EXCEPT !.recommendation = "RECOMMEND_HUMAN_REVIEW"])
  <2>1. "HUMAN_REQUIRED" # "SHADOW_AUTOAPPROVE_CANDIDATE"
        /\ "RECOMMEND_HUMAN_REVIEW" # "RECOMMEND_SHADOW_CANDIDATE_ONLY"
      OBVIOUS
  <2> QED BY <1>2, <1>4, <1>5, <2>1
<1> QED BY <1>7, <1>9, <1>10, <1>11, <1>12 DEF Failing, one, three, ten

-----------------------------------------------------------------------------
(* The gate and the scenarios.                                             *)

(* Each of the twelve shipped scenarios passes, whatever the roles are:    *)
(* supervise gives it the verdict, the recommendation and the Sentinel     *)
(* class that it expects.                                                  *)
THEOREM ShippedScenariosPass == \A k \in DOMAIN SCENARIOS : Passed(SCENARIOS[k])
BY TheTwelve, ScenariosPass

(* The gate tells the truth about every scenario: in suites of any length, *)
(* of the shipped scenarios and those that fail in each way there is.      *)
(* The hypothesis says what the suites of the run are made of.             *)
THEOREM GateTruth ==
    ASSUME Scenarios \subseteq Elements
    PROVE  Spec => []GateTellsTheTruth
<1>1. ASSUME NEW s \in Scenarios
      PROVE  /\ s # NotAScenario
             /\ Passed(s) <=> s \in Shipped \cup {Unpublishable}
             /\ Passed(s) <=> s \notin Failing
  <2>1. s # NotAScenario /\ s \in Shipped \cup Failing \cup {Unpublishable}
    <3>1. s # NotAScenario
        BY DEF Scenarios
    <3> QED BY <3>1 DEF Elements
  <2>2. \A x \in Shipped \cup {Unpublishable} : Passed(x)
      BY TheTwelve, ScenariosPass, UnpublishablePasses DEF Shipped, Range
  <2> QED BY <2>1, <2>2, FailingFail
<1>2. Inv => GateTellsTheTruth
  <2> SUFFICES ASSUME Inv, report # None PROVE GateTellsTheTruth
      BY DEF GateTellsTheTruth
  <2>1. suite \in Suites /\ Faithful /\ Complete
      BY DEF Inv
  <2>2. /\ report.scenarios = results /\ DOMAIN results = DOMAIN suite
        /\ report.success <=> \A k \in DOMAIN suite : Passed(suite[k])
        /\ \A k \in DOMAIN suite : suite[k] \in Scenarios
      BY <2>1, CompleteMeans
  <2>3. report.passed + report.failed = Len(suite) /\ report.total = Len(suite)
      BY <2>1, GateResultMeans DEF Faithful, Complete, GateResult
  <2>4. \A k \in DOMAIN suite : results[k].passed = (suite[k] \in Shipped \cup {Unpublishable})
    <3>1. \A k \in DOMAIN suite : results[k].passed = Passed(suite[k])
        BY <2>1, <2>2 DEF Faithful
    <3>2. \A k \in DOMAIN suite : Passed(suite[k]) \in BOOLEAN
        BY DEF Passed
    <3> QED BY <1>1, <2>2, <3>1, <3>2
  <2>5. [k \in DOMAIN report.scenarios |-> report.scenarios[k].passed]
            = [k \in DOMAIN suite |-> suite[k] \in Shipped \cup {Unpublishable}]
      BY <2>2, <2>4
  <2>6. NotAScenario \notin Range(suite)
      BY <1>1, <2>2 DEF Range
  <2>7. report.success <=> Range(suite) \cap Failing = {}
      BY <1>1, <2>2 DEF Range
  <2> QED BY <2>3, <2>5, <2>6, <2>7 DEF GateTellsTheTruth
<1> QED BY <1>2, Invariance, PTL

(* The release gate as it is shipped: whenever it gets as far as a report, *)
(* all twelve scenarios passed and none of their names stands in the way;  *)
(* and it only fails where some output can: asked for no file, and with a  *)
(* standard output that is written at the end or is missing, main returns  *)
(* 0, and only the shutdown can still make a failure of it.                *)
ShippedGatePasses ==
    suite = SCENARIOS =>
        /\ report # None => /\ report.success /\ Publishable
                            /\ report.passed = 12 /\ report.failed = 0
        /\ ~json /\ stdout \in {"block", "missing"} => status # 1

THEOREM ShippedGate == Spec => []ShippedGatePasses
<1>1. Inv => ShippedGatePasses
  <2> SUFFICES ASSUME Inv, suite = SCENARIOS PROVE ShippedGatePasses
      BY DEF ShippedGatePasses
  <2>1. ASSUME report # None
        PROVE  report.success /\ Publishable /\ report.passed = 12 /\ report.failed = 0
    <3>1. suite \in Suites /\ Faithful /\ Complete
        BY <2>1 DEF Inv
    <3>2. /\ DOMAIN results = 1..12 /\ Len(results) = 12
          /\ report.success <=> \A k \in 1..12 : Passed(SCENARIOS[k])
          /\ Publishable <=> SanitizeValue({SCENARIOS[k].name : k \in 1..12})
        BY <3>1, CompleteMeans, TheTwelve DEF Complete
    <3>3. CheckStringValue(<<"w">>)
        BY DEF CheckStringValue
    <3>4. SanitizeValue({SCENARIOS[k].name : k \in 1..12})
        BY <3>3, ScenariosPass DEF SanitizeValue
    <3>5. /\ report.success
          /\ report.passed = Len(results)
          /\ report.failed = Len(results) - Len(results)
      <4>1. report.success
          BY <3>2, ScenariosPass
      <4>2. /\ report.success = (report.passed = Len(results))
            /\ report.failed = Len(results) - report.passed
          BY <3>1 DEF Complete, GateResult
      <4> QED BY <4>1, <4>2
    <3>6. report.passed = 12
        BY <3>2, <3>5
    <3>7. report.failed = 12 - 12
        BY <3>2, <3>5
    <3> QED BY <3>2, <3>4, <3>5, <3>6, <3>7
  <2>2. ASSUME ~json, stdout \in {"block", "missing"} PROVE status # 1
    <3>1. CASE report = None
      <4>1. Suite /\ ~\E k \in DOMAIN suite : suite[k] = NotAScenario
        <5>1. DOMAIN SCENARIOS = 1..12 /\ \A k \in 1..12 : SCENARIOS[k] # NotAScenario
            BY TheTwelve, ShippedAssumption DEF Range
        <5>2. SCENARIOS # None /\ SCENARIOS # <<>>
            BY <5>1, ShippedAssumption, EmptySeq
        <5> QED BY <5>1, <5>2 DEF Suite
      <4> QED BY <3>1, <4>1 DEF Inv, Statuses, OneMeans
    <3>2. CASE report # None
        BY <2>1, <2>2, <3>2 DEF Inv, Statuses, OneMeans
    <3> QED BY <2>1, <2>2, <3>1, <3>2 DEF Inv, Statuses, OneMeans, Suite
  <2> QED BY <2>1, <2>2 DEF ShippedGatePasses
<1> QED BY <1>1, Invariance, PTL
=============================================================================
