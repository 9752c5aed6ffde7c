# Moiras in TLA+

Moiras (`src/moiras`) is a Python library that supervises autonomous actions in
*shadow mode*: it scores an action, hears a council of four reviewers, and says
what it would recommend. It never executes anything. Around that pure decision
pipeline sit a thread-safe broker of synthetic single-use capabilities, a
recorder of evidence and a gate that runs scenarios.

This directory models it: TLA+ modules translated from the source, TLC
configurations, and TLAPS proofs. `PROJECT.json` maps every definition to the
lines it stands for, and lists the runs, the mutants and the hazards.

To run something: `tlc -config broker.cfg MCBroker.tla`, `tlapm BrokerProofs.tla`.

## 1. Inventory of the code

| component | state | operations | hard behaviour | what makes it correct |
|---|---|---|---|---|
| **Broker** `broker.py` | `_store`: id -> (state, expiry), a `threading.Lock` | `mint`, `consume`, `prune` | threads; the clock is read before the lock is taken; checks and writes in separate steps; the capability object is built after the lock is released; ids reused after `prune` | each minted capability is consumed once, or lapses once, or is live; nothing expires early; nothing is decided on a stale entry; every call returns |
| **Contracts** `contracts.py` | none: frozen, validated values | constructors, `to_dict` / `from_dict` | what a value that exists can be | only valid values exist; a decision never says `executed` |
| **Risk** `risk.py` | none | `assess` | tables that must agree with each other | a more dangerous declaration never scores lower; hard stops are exactly six |
| **Council** `council.py` | none | `aggregate` | early exits in a loop over opinions in the caller's order; boundaries | candidate iff the panel is clean; order does not matter; a refusal stays one |
| **Sentinel** `sentinel.py` | none | `compare_snapshots` | two clocks, counters that begin again, executions that end | inactivity and progress are claimed only when they are real; swapped snapshots tell nothing; the answers of several looks add up |
| **Supervisor** `supervisor.py` | none | `supervise`, `ShadowSupervisor.run` | order of checks: arguments, snapshots, baseline, panel | a hard stop stops whatever the panel says; a candidate is harmless; what the Sentinel says never reaches the verdict |
| **Evidence records and metrics** `evidence.py` | frozen records | `EvidenceRecord`, `EvidenceMetrics.compute` | records that come late, twice, or contradict; several attempts of one execution | the metrics depend on the set of records alone, key by key; stale records change nothing; outcomes only add doubt |
| **Evidence recorder** `evidence.py` | a JSONL file, a lock per recorder | `EvidenceRecorder.record` | a stream that is written when it is closed, and flushed twice; short and failing writes; two recorders on one file; a crash inside a line | one line per returned call; a torn line costs at most the line it is glued to; every call returns |
| **Sanitizer** `sanitize.py` | none | `sanitize_value`, `validate_id` | two notions of a good id | what goes out was made with an identifier, but for one line break |
| **Gate** `harness.py` | the results of one run | `run_gate`, twelve `SCENARIOS`, `GateResult.to_dict` | an exception in a scenario is a result | the gate tells the truth about every scenario |
| **Command line** `__main__.py` | a file, standard output and its buffer, the exit status | `main` | the file may be stale or torn; standard output may be missing, or fail after `main` has returned | exit status 0 means that nothing failed, and that the whole report is in the file asked for and in a buffered standard output |
| **Package** `__init__.py` | none | re-exports | - | - |

How they interact: `supervise` calls `compare_snapshots` when it got two
snapshots, then `assess`, then `aggregate`, and wraps the results. A caller may
hand the decision to `Broker.mint`, which accepts it only if it is a shadow
candidate in shadow mode that was not executed. What it gets can be consumed
once. The caller writes evidence through the recorder, which passes every record
to the sanitizer, and later computes metrics of the records it has read back. The
gate supervises twelve fixed scenarios, compares, counts, and the command line
publishes the sanitized result. All calls are direct; there are no callbacks
except the injected clock and id factory of the broker. The only state shared
between threads is the broker's store (one lock) and the recorder's file (one
lock *per recorder*); the only state that outlives the process is that file and
the one `--json` names.

## 2. Modules and how they correspond to the code

An arrow points from a module to what uses it; `==>` is "is implemented by".

```
Ledger ==> Broker ------------------> MCBroker           runs broker*
                \-------------------> BrokerProofs

Contracts -> Risk, Council, Sentinel, Evidence
Council   -> Deliberation ----------> MCDeliberation     runs council*
SupervisionProofs, Deliberation ----> DeliberationProofs
Sentinel  -> Execution                                   run  sentinel
SupervisionProofs, Execution -------> ExecutionProofs
Risk, Council, Sentinel -> Supervision
Supervision -> SupervisionProofs      (lemmas about the pure functions)
Supervision -> Supervisor ----------> MCSupervisor       run  supervisor
SupervisionProofs, Supervisor ------> SupervisorProofs
Supervision, Sanitize -> Gate ------> MCGate             run  gate
SupervisionProofs, MCGate ----------> GateProofs
Evidence ---------------------------> MCEvidence         run  metrics
                \-------------------> EvidenceProofs

Sanitize -> Recorder ---------------> MCRecorder         runs recorder*
                \-------------------> RecorderProofs
Journal ==> Recorder
```

**Broker** models `SyntheticCapabilityBroker` as its threads see it. `store`,
`lock` and `clock` are the shared state, `id`, `ttl`, `now`, `entry` and
`doomed` a call's locals, and `pc` says where each call stands. A call is cut
where another thread can come in between:

| place | code |
|---|---|
| `MintCall` / `MintRejected` | everything `mint` checks and reads before the lock, the clock included |
| `MintLock` | `with self._lock:` and the look-up of the id |
| `MintCollision`, `MintStore` | the exception inside the lock; the write and the release |
| `MintReturn` | `SyntheticCapability(...)`, built without the lock |
| `ConsumeCall` ... `ConsumeWin` | the same for `consume`, one action per outcome |
| `PruneCall`, `PruneLock`, `PruneDelete` | the list of finalized ids, and the deletions |

Inputs are everything a caller, an id factory or a clock can produce up to what
the code tells apart: a decision that is a candidate or not, a ttl of every
admitted number of ticks and one beyond each end, an id that is valid or not, a
reading that is the clock's or one no check accepts. `Expiry` models
floating-point absorption: adding a ttl to a reading that is large enough
returns the reading (`AbsorbFrom`), and `mint` refuses it.

`minted`, `won`, `lapsed` and `issued` are history variables: they count, per id,
the writes of each kind, and remember the clock reading of the last `mint`.

**Ledger** is what the broker promises: no lock, no clock, no steps. A question
is answered with the truth about its id at one instant between question and
answer. `Broker` implements it (`ImplementsLedger`): the store's states are the
ledger's standings, and a `mint` is answered when it writes the store, not when
it returns. That is the linearizability of the broker.

**Contracts, Risk, Council** are pure operators; scores are tenths (the code's
10.0 is 100). `Aggregate` keeps the code's order: hard stop, selection (which
stops at the first opinion it cannot use), veto, divergence, band. Reason codes
are sets, since nothing decides on their order.

**Deliberation** is a caller that hears reviewers one at a time and aggregates
after each.

**Sentinel** is `compare_snapshots`, a pure operator in the order of the code's
checks: arguments, order of the snapshots (`Comparable`), progress, block,
waits, activity, silence. **Execution** is what it is asked about. The code takes
snapshots as data and has no execution, so this part is an environment: it says
what a snapshot can look like (`live`, with the counters, flags and both clocks
of `ExecutionSnapshot`) and keeps next to it what really happened (`truth`). An
execution advances (`Advance`), works without advancing (`Work`), waits or is
blocked and stops doing so (`Pause`), ends (`Finish`) and is started again as a
new attempt, with counters and monotonic clock at zero (`Restart`). `Tick` moves
both clocks, `SetBack` the wall clock alone. The properties compare what
`CompareSnapshots` says of any two snapshots with the truth between them.

**Supervision** is `supervise`, as a pure operator: the arguments are refused
(`Refused`: opinions that are no sequence, snapshots without threshold and the
reverse, a number of snapshots other than two, snapshots that do not compare),
then baseline, panel and report. **Supervisor** is a caller that supervises again
when another opinion comes in, when one field of the action is declared anew (as
after `MITIGATE_AND_REASSESS`) or when it passes other arguments. Its actions are
calls; the code itself keeps no state between them.

**Sanitize** is what the sanitizer does to identifiers. A string is a sequence of
*pieces* that the two functions tell apart (a plain word, the halves of a
sensitive marker, a separator, a secret prefix, a line break, anything else), so
the id pattern, the marker search after `normalize_key`, the prefix test of
`validate_id` (at the beginning only) and the one of `sanitize_value` (at the
beginning of any word) are each what they are in the code.

**Recorder** models `EvidenceRecorder.record` as its threads and the file see it:

| action | code |
|---|---|
| `Record` / `RecordRefused` | `EvidenceRecord(...)`, `to_dict`, `sanitize_value` and `json.dumps`, all before the lock |
| `Acquire` | `with self._lock:`, `open` and `stream.write`, which only fills a buffer |
| `OpenFails` | the exception of `open`; the lock is released |
| `WriteSome` | the operating system takes the text, the line break, or both |
| `WriteFails` | the flush of closing the text stream fails; closing the buffer below will flush what is left once more |
| `WriteFailsAgain` | that fails as well: the exception leaves both `with` blocks |
| `Close` | nothing is left; the call returns, or raises if the first flush had failed although the line is now complete |
| `Crash` | the process dies: locals, buffers and locks are gone, the file stays |

The double flush is CPython's, read off by making the first write of a stream
fail: the exception is raised and the line is on disk.

**Journal** is what the recorder promises, without threads, locks or files: a
call that returns has its line on disk once, a call that raises or dies may have,
and no line appears after its call has ended. `Recorder` implements it
(`ImplementsJournal`), a record's line being there when its line break is.

**Evidence** has the records of the three levels and `EvidenceMetrics.compute`,
cut like the code into events of a key, latest time, latest codes, later labels,
ambiguity and counts. The events of a key are the positions of its records, so two
equal records are two events, as in the code's lists; a rate is a pair of numerator
and denominator. Its state
machine is a reader that computes the metrics after every record it meets, in
any order, a record repeated included (which a retry after a raised call makes).

**Gate** is `run_gate` and `main`, down to the end of the process: one action per
scenario, per way to end early and per step of the output. `SCENARIOS` are the
code's twelve, supervised by `Supervise`. The command line always runs those; the
model also gives it suites that fail, since that is what its exit status is for.

| action | code |
|---|---|
| `Refuse`, `Start`, `RunScenario`, `NoScenario`, `Count` | `run_gate` |
| `SerializeFails`, `Serialize` | `GateResult.to_dict` and `json.dumps` |
| `Write`, `WriteFails` | `write_text`; a failure leaves the old file, a torn one or a whole one |
| `Show`, `ShowFails` | `print`, as far as it writes anything itself |
| `Return` | the status `main` returns |
| `Close`, `CloseFails` | the interpreter flushes standard output as it shuts down |

What `print` does depends on what standard output is (`Outputs`), which is
CPython's business and was read off by running the program against each kind. If
its descriptor is closed at the start, `sys.stdout` is None and `print` returns
without doing anything. A pipe or a file is block buffered: `print` fills the
buffer, and the flush after `main` decides (`held`). A terminal is written at the
line break. Unbuffered (`python -u`), the text goes to one system call, and a part
may be taken without anybody noticing. An exception of `main` is status 1; a failed
flush at shutdown makes any status 120.

## 3. The runs

| run | question | bounds | why they are enough |
|---|---|---|---|
| `broker` | do two threads on two ids keep to the ledger, expire nothing early or at birth, return every mint they store, and settle each mint once, also when an id is minted, settled, pruned and minted again while a call waits? | 2 threads, 2 ids, 3 calls each, clock 0..2, ttl 1..2, absorption at 2 | every race is a race of two for one lock; two ids let a call touch an id another call is not about; one thread mints and the other consumes, prunes and mints again while the first waits in its own consume; the clock passes an expiry and reaches absorption |
| `broker_live` | does every call return? | 3 threads, 1 id, 2 calls each | three threads: one waits while two others exchange the lock |
| `broker_recycled_id` | is an id ever minted twice? (it is) | 2 threads, 1 id, 4 calls each | |
| `broker_stale_clock` | is something consumed at or after its expiry? (it is) | 2 threads, 1 id, 2 calls each | |
| `council` | every way to spoil a panel, every boundary, every order | 3 roles, panels of up to 4, scores 0, 30, 31, 40, a veto, EDGE, UNKNOWN, no opinion; baselines on both sides of each band, both hard stops | the code has four roles, and asks only whether each has spoken and how many opinions there are: a panel of one more than the roles is complete, duplicated and late in every way; every threshold has a score on it and one beside it |
| `council_ineligible` | are ineligible models never counted? (they are) | as `council` | |
| `supervisor` | every action of the 16 x 4 x 4 x 4 x 2 x 2 = 4096, every change of one field, with and without snapshots | four roles, two starting panels, one completing opinion that agrees and one that diverges, snapshots that show progress, that show inactivity, and one example per reason to refuse the arguments | actions are exhaustive; panels are the council run's business, snapshots the Sentinel run's |
| `sentinel` | is what the Sentinel says of any two of three snapshots what happened, and how do three answers add up? | 4 happenings, 3 snapshots, thresholds 0, 1, 2 | a lie needs few happenings: restart, set the clock back, advance, and a tick; three snapshots make a chain; the thresholds are below, at and above the time that passes |
| `recorder` | what does a reader find in a file that threads write through one recorder or two, with failing writes and a crash; does every call return? | 3 threads, 2 recorders, 3 records, 1 crash | one thread waits for the lock while two others, in two recorders, write at the same time; a torn line, the record glued to it and one more; a crash at every point |
| `recorder_newline` | is everything on disk made with an identifier? (it is not) | 1 thread, 2 records, an id for every reason to refuse one | |
| `metrics` | do the metrics depend on the set of records alone? | two attempts of one execution, 4 records of 29, times 1..3 | two recommendations that disagree and two outcomes that disagree fit; outcomes exist before, at and after each recommendation; two attempts show that keys are apart |
| `gate` | does the gate tell the truth, and what does exit status 0 mean? | the shipped suite, the shipped suite and a failing scenario, every pair of scenarios, triples of failing ones; with and without a file, fresh or stale; every kind of standard output | a failing scenario of each kind (verdict, recommendation, Sentinel class, each exception) stands before, between and behind passing ones |

Threads, ids (Broker), roles (Deliberation) and attempts (Evidence) are
symmetric: no module names one of them. The runs that check liveness use no
symmetry.

**Deadlock** is checked in every run. Where the real system stops - every thread
out of the broker, a caller with a complete panel, an execution nobody looks at
any more, records all answered, a program that has exited - an explicit
stuttering step (`AllReturned`, `Closed`, `Done`, `Ended`) says so, so a broker or
a recorder stuck with its lock held would be reported.

**Fairness.** Both `FairSpec`s assume weak fairness of each thread's steps
*inside* a call: the operating system schedules every thread, and a thread that
waits for a lock that stays free gets it. Nothing makes a thread begin a call,
and nothing makes a process crash. Which way a write goes is a choice among fair
steps, and a write cannot go on for ever: each attempt takes a piece or fails, and
a second failure is the last. CPython's `Lock` is not fair, so a thread could be
overtaken for ever by threads that call for ever. The runs bound the calls, so
others eventually stop taking the lock; what `EveryCallReturns` and
`EveryRecordReturns` show is therefore that no path keeps a lock or leaves a thread
waiting for something that does not happen, not freedom from starvation.

### Disagreements between the code and what is said of it

1. **`broker_recycled_id`.** `mint` compares a new id with those *in the store*,
   and `prune` removes settled ids. An id factory that repeats itself then mints
   an old id again without an error, so an old holder of the id may consume the
   new capability. (`EachMintSettlesOnce` holds all the same: single use holds per
   mint, not per id.) What remains true is proved:
   an id comes back only after each of its earlier mintings was settled
   (`RecycledIds`).
2. **`broker_stale_clock`.** `consume` reads the clock, then waits for the lock
   as long as it takes, then compares the old reading. A capability is recorded
   CONSUMED although its expiry has passed. The reverse holds and is proved:
   nothing is recorded EXPIRED early. (That a call which *read the clock* at or
   after the expiry cannot win is the comparison itself, and not stated again.)
   The same order in `mint` can make a capability that is expired when it enters
   the store, if the wait for the lock outlasts the ttl; `NoneExpiresAtBirth` says
   that it is never expired on the very reading it was minted with, which takes
   the check for absorption.
3. **`council_ineligible`.** The score shown counts every opinion, EDGE and
   UNKNOWN ones included, and one ineligible opinion beside four good ones turns
   a candidate into HUMAN_REQUIRED. The module's docstring says "never counted";
   `docs/protocol.md:59` describes the invalidation of the panel as intended.
   Both errors are on the cautious side, which is proved (`IneligibleIsCautious`):
   with an ineligible opinion in the panel nothing is admitted, the score is at
   least that of any choice among the opinions, and the verdict is that choice's or
   HUMAN_REQUIRED.

4. **`recorder_newline`.** `ID_PATTERN` ends in `$`, which Python also matches
   before a final line break. `validate_id` returns an id such as `w` and a line
   feed; its docstring promises `[A-Za-z0-9._:-]+` and an exception for anything
   else. The line break is escaped in the JSON line, so lines stay lines.
   That one line break at the end is all: every other character on disk is an
   identifier's, and no id begins with a secret (`IdsOnDisk`).

### Other observations

- Verdicts are not monotone in opinions' scores: 0, 0, 0, 3.5 diverges and needs
  a human, while 1, 1, 1, 3.5 is a candidate. What is monotone is checked instead
  (`ScoreOnlyRises`, `RefusalIsFinal`, `EscalationNeverAdmits`).
- A panel member that is no opinion makes `aggregate` raise, unless an ineligible
  opinion comes first. `OrderIrrelevant` is about panels of opinions for this
  reason.
- `aggregate` on a hard stop ignores the panel's content, but `supervise` with
  snapshots that do not compare raises even for a hard stop; hence the hypothesis
  of `HardStopAlwaysStops`.
- The reason `SCORE_TEN` is reached only when `aggregate` is called directly with
  an assessment that `assess` never makes.
- A reversibility of UNKNOWN contributes 7.0 and no reason code.
- `consume` raises on an unusable clock reading (`ConsumeRejected`); its docstring
  (`broker.py:258-262`) names only a malformed id as a reason to raise.
- An ISSUED entry is never pruned, expired or not; `broker.py` says so.
- A counter that goes back is refused, a terminal flag that goes back is not. Two
  snapshots taken at the same instant around the end of an execution, given in the
  wrong order, compare; with an idle threshold of 0 they are PROBABLE_INACTIVITY.
  `SwappedPairTellsNothing` states what remains true.
- The idle threshold is compared with the time between two looks, not with the time
  since anything happened. An observer that looks more often than the threshold and
  compares neighbouring looks gets INDETERMINATE for ever, where the first and the
  last look are PROBABLE_INACTIVITY; and work done before a look that finds a wait
  shows in the far pair only. `ChainsAgree` states how answers do add up.
- A wait between two looks leaves no trace: the flags are read in the second
  snapshot only. PROBABLE_INACTIVITY then says what it says, no progress and no
  activity, and `InactivityIsReal` claims no more. A finished execution that is
  looked at twice afterwards is PROBABLE_INACTIVITY as well.
- A call of `record` may raise although its line is complete on disk, so a caller
  that retries makes duplicates. The metrics do not mind (`OnlyTheSetCounts`).
- After a crash or a failed write inside a line, the next record is appended to
  the torn line, and a reader of lines loses both. `DamageIsLocal` bounds the damage.
- `validate_id` tests secret prefixes at the beginning, `sanitize_value` after every
  separator: an id such as `w.sk-w` makes a valid contract that `record` and
  `GateResult.to_dict` refuse, in spite of
  `test_every_contract_serialization_passes_sanitization`
  (`src/tests/test_sanitize.py:334`), which tests plain ids. The error is
  on the safe side, but the outcome is not recorded: the call raises before it takes
  the lock (`RecordRefused`).
- A failed `--json` write leaves the file stale or torn; only the exit status tells.
- Started with standard output closed, `python -m moiras` prints nothing and exits
  with 0. With `python -u`, a short write is not noticed either. A pipe or a file
  that cannot be written exits with 120, after `main` has returned 0 or 1.
  `ExitZeroIsReported` promises the printed report only where these do not apply.

## 4. What is proved

Every safety invariant, action property and refinement that a passing run checks
is a theorem for every value of the constants (`GateTellsTheTruth` under the
hypothesis that its suites are made of the scenarios of its run, in any number and
order). The bounds of the runs (`MaxClock`, `MaxCalls`,
`MaxPanel`, `MaxHappenings`, `MaxKept`, `MaxRecords`, `MaxCrashes`) are arbitrary
naturals in the theorems, and the menus, panels, suites, roles, keys and ids are
arbitrary sets within the assumptions.

Each proof module first proves `Invariance`, `Spec => []Inv`, from `Inv` being
true initially and kept by every step, and then each property from `Inv`, or, for
an action property, from `Inv` before and after one step. TLC has checked each
`Inv` on the instances of the runs as well.

| module | theorem | property |
|---|---|---|
| `BrokerProofs` | `TypeCorrectness` | `TypeOK` |
| | `SingleUse` | `EachMintSettlesOnce` |
| | `NoEarlyExpiry` | `ExpiredNeverEarly` |
| | `FreshUnderLock` | `NothingStaleUnderLock` |
| | `MintsAreReturned` | `StoredMintsAreReturned` |
| | `NoExpiryAtBirth` | `NoneExpiresAtBirth` |
| | `Refinement` | `ImplementsLedger` |
| | `RecycledIds`, `LiveEntriesStay` | *(stated there)* |
| | `LedgerBalances`, `WinsAreTold` | *(stated in `Ledger`)* |
| `RecorderProofs` | `TypeCorrectness` | `TypeOK` |
| | `LinesDoNotMix` | `OneRecorderNeverInterleaves` |
| | `DamageBeside` | `DamageIsLocal` |
| | `Refinement` | `ImplementsJournal` |
| | `ReturnedIsOnDisk`, `NothingLandsLate` | *(stated in `Journal`)* |
| | `DamageIsBounded`, `IdsOnDisk` | *(stated there)* |
| `DeliberationProofs` | `TypeCorrectness` | `TypeOK` |
| | `CandidatesAreClean` | `CandidateIffClean` |
| | `MiddlingIsMitigated` | `MitigateIffMiddling` |
| | `NeverUnderstated` | `ScoreNeverUnderstated` |
| | `OrderDoesNotMatter` | `OrderIrrelevant` |
| | `ScoresRise` | `ScoreOnlyRises` |
| | `RefusalsAreFinal` | `RefusalIsFinal` |
| | `AnyOrderWillDo`, `IneligibleIsCautious` | *(stated there)* |
| `SupervisorProofs` | `TypeCorrectness` | `TypeOK` |
| | `HardStops` | `HardStopAlwaysStops` |
| | `CandidatesAreHarmless` | `CandidateIsHarmless` |
| | `ZeroIsUnique` | `ZeroRiskOnlyThere` |
| | `EscalationIsSafe` | `EscalationNeverAdmits` |
| | `SentinelIsInert` | `SentinelOnlyDescribes` |
| `ExecutionProofs` | `TypeCorrectness` | `TypeOK` |
| | `InactivityTold` | `InactivityIsReal` |
| | `ProgressTold` | `ProgressIffReal` |
| | `SwappedTold` | `SwappedPairTellsNothing` |
| | `ChainsTold` | `ChainsAgree` |
| `EvidenceProofs` | `TypeCorrectness` | `TypeOK` |
| | `OnlySetsCount` | `OnlyTheSetCounts` |
| | `Independence` | `KeysAreIndependent` |
| | `StaleIsIgnored` | `StaleRecordsChangeNothing` |
| | `DoubtStays` | `OutcomesOnlyAddDoubt` |
| `GateProofs` | `TypeCorrectness` | `TypeOK` |
| | `ExitStatus` | `ExitZeroIsReported` |
| | `GateTruth` | `GateTellsTheTruth` |
| | `Truth`, `ShippedScenariosPass`, `ShippedGate` | *(stated there)* |

### Assumptions

They are the named `ASSUME`s of the modules, which TLC evaluates in the runs. Three
kinds: bounds are naturals (for the broker, the ttl bound is positive); what a
caller may pass lies within the values the constructors admit (`Menu`, `Baselines`,
`Requests`, `FirstPanels`, `Suites`); and the marker values - no thread, no id, an
exception, no report, no opinion, no record - are not values of the kind they mark.
Names of records are strings of the pieces that `Sanitize` knows. None of the
twelve shipped scenarios is the marker for what is no scenario.
The roles are finitely many and at least one; only the gate, whose scenarios name
them, fixes the code's four, which are distinct. `Thresholds` may hold any integers, negative ones
included, which the Sentinel refuses.

### The arguments

**Broker.** `EachMintSettlesOnce` is not inductive: a thread that is about to
write CONSUMED must know that the entry it read is still ISSUED. `Inv` adds
`NothingStaleUnderLock` (a thread is in the critical section exactly when it
holds the lock, and what it read there is what the store holds) and `FramesOK`
(a call carries what its own checks admitted; its clock reading is of the past).
The preservation of `Inv` is split by part: `TypeStep`, `LockStep`, `FramesStep`
(which the late constructor needs), `EarlyStep` (a stored expiry that is recorded
is at or before a reading, which is at or before the clock), `IssueStep` (what is
stored expires after the reading it was minted with, `LivesAfterIssue`) and
`SettleStep` (the balance changes on both sides at once). The last two parts
together give `NoneExpiresAtBirth`. `EntryIsFresh` turns the lock invariant
into the fact each deciding step needs, and `QuietSteps` disposes of the steps
that leave the store and the histories alone. `BuildAccepts` shows the constructor
refuses nothing that `mint` admitted. `Refinement` maps each step: calls to `Ask`
or `Refuse`, deciding steps to `Issue`, `Spend`, `Lapse`, `Report`, `Forget`,
and lock, tick and `MintReturn` steps to stutters.

What the ledger promises is proved of the ledger alone and comes to the broker with
the refinement: it balances (`LedgerBalances`, by an invariant of its own that adds
the types), and a win is recorded exactly when one caller, the one that asked, is
told (`LedgerTells`, hence `WinsAreTold`). `OneId` says what a step of the broker may
do to a single id; `RecycledIds` and `LiveEntriesStay` follow from it and the
balance.

**Recorder.** `OneRecorderNeverInterleaves` is about the file alone and says nothing
of who is writing, so it is not inductive: the next piece of a line could land
behind another's. `Inv` adds who may write and what is still to come: a recorder's
lock is held by the thread that writes through it (`LocksHeld`); a record belongs
to one call, which is pending (`CallsOwned`); each piece is on disk once, the text
before its line break, and only of admissible ids (`FileMade`); what is on disk of
an unfinished line is what its stream no longer holds (`PiecesAccounted`); and
behind the first piece of an unfinished line there is nothing of its recorder but
the rest of it (`NothingBehind`). The lemma `NewPieces` describes a file that grew by one
write; `WriteSomeStep` restores each part of `Inv` from it, and `LeaveStep` and
`CrashStep` show that a call that ends takes its obligations along. `Refinement`
counts the line breaks of a record (`Breaks`, at most one by `OneBreak`): a write
that carries the break is the journal's `Land`, leaving is `Answer` or `Raise`, a
crash is `Die`, everything else stutters. This is the safety of the journal;
it has no fairness. `JournalMoves` says what a step of the journal does to one
record; with the refinement it gives `ReturnedIsOnDisk` and `NothingLandsLate`.
`DamageIsBounded` takes the step from *where* damage is (`DamageIsLocal`) to *how
much* there is: through one recorder, a spoilt line is directly behind a torn one,
and going one piece back is an injection. `IdsOnDisk` reads the id pattern off
`FileMade`.

**Council, Deliberation, Supervisor.** These keep nothing between calls but their
last answer, so `Inv` is short: the decision (the report) on show is what
`Aggregate` (`Supervise`) makes of the present inputs. The work is in the lemmas of
`SupervisionProofs`, for any finite set of roles and panels of any length. The
code finds an admissible panel by a loop, two sets of roles and a count;
`SelectedMeans` shows that this is exactly "every opinion is eligible and every role
has one voice" (the count follows, `AsManyAsRoles`, by a bijection between seats and
roles). `CombinedMeans` and `DivergesMeans` turn `Max` and `Min` into bounds on all
pairs, and `AggregateMeans` sums up what a decision says. `AnyOrderWillDo` then
compares a panel with one in another order part by part (`ReorderingKeeps`, for any
permutation and its inverse): the same members, spoilers, doubled and missing
roles. `OrderIrrelevant` is its case of two neighbours (`ExchangeReorders`).
`CleanMeans` reads off a panel that objects to nothing what the two exact
characterizations, of candidates and of what is sent back, need. That an exception
stays one is about the loop: it stops where it stopped before (`SpoiledStays`).
The arithmetic of `assess` is `AssessMeans`; `SuperviseMeans` says which arguments
are refused and what becomes of the others, and `SupervisorProofs` adds
`CandidateMeans` (which inputs give a candidate) and
`RiskRises` (a worse field never lowers the largest of the five scores).

**Execution.** The properties compare two looks, but a step adds only one; what
must be kept is how every earlier look is related to the present. `Since(e, l)`
says it: truth and attempts only grow, and within one attempt the counters and the
monotonic clock have gone up by exactly what happened. `Inv` has it between each
look and now, and between every two looks in order; `PresentMovesOn` keeps it for
all looks at once when the present changes, whatever step did that. The wall clock
is not in it, since `SetBack` may do anything to it. `Classification` (in `SupervisionProofs`) says when the
Sentinel's cascade of cases yields each class, `Between` reads `Since` off two
looks at one attempt, and `InOrder` says when such a pair compares at all.
`InOrderSays` puts them together: what is said of two looks, in terms of what
happened between them; `ChainsAgree` adds up two of these.

**Evidence.** `Inv` again says that the metrics are `Compute` of what was read.
`ComputeMeans` is the step that makes the rest possible: `Compute`, defined as the
code is on positions in a sequence, is a function `MetricsOf` of the *set* of the
records. `OnlyTheSetCounts` follows at once; `KeysAreIndependent` is the cardinality
of a disjoint union (`SplitCount`); the two action properties need to know that the
latest of finitely many times exists (`LatestExists`) and how it, the codes and
the later labels change when one record is added (`StaleRecord`, `DoubtGrows`).

**Gate.** `Inv` says for each phase how much of the report exists: results are those
of the first scenarios in order (`Faithful`), and from `counted` on the report is of
the whole suite (`Complete`). Where it may be seen is said of the file (`OnDisk`)
and of standard output with its buffer (`OnScreen`), and what a status tells while
the program is shutting down and afterwards, by `Statuses`: 0 comes from `Return`
alone, after a write and a print that did not fail, and is still there at the end
only if the buffer was written. `ExitZeroIsReported` talks of the end only and needs
all of it. `Truth` is about any suite: one result for each scenario, in order,
success exactly if all passed, and counts that agree.

`GateTruth` and `ShippedGate` say which scenarios pass, so they evaluate
`supervise`, by proof: `PassedMeans` says what a scenario passes by, `FourDecide` what
aggregate makes of one fit opinion per role, whatever order and names the roles
have, and `ScenarioPasses` and `ObservedPasses` put the two together for scenarios
without and with snapshots. `TheTwelve` spells the shipped scenarios out,
`ScenariosPass` applies the lemmas to each, and `FailingFail` shows for each way a
scenario can be wrong that it does not pass. What the gate does with them is
`Inv`'s business as before.

### What is only model-checked

- `EveryCallReturns` and `EveryRecordReturns`: liveness rests on fairness, hence on
  ENABLED, which the prover does not handle.
- The four properties that are violated.

The library's induction theorems take an operator as a parameter, which the
provers cannot instantiate. The two inductions that were needed take a least
counterexample in a set instead (`LeastNatural`, `LatestExists`); no theorem needs
a recursive definition.

## 5. What is not modelled, and why

- In **Contracts**: confidence, mitigation and reason codes of opinions, and the
  dict conversions. No code in `src/moiras` decides on them. Value sets stand for
  the constructors' checks. An `attempt` of a snapshot stands for what two snapshots
  must share: execution, attempt and profile.
- In **Sanitize**: forbidden keys, paths, URLs and Unicode normalization. Every key
  a contract serializes is on the allowlist, no path or URL can be spelled with
  the characters of an id, and the pattern of ids is ASCII; these checks are regular
  expressions over text that no modelled caller can produce.
- **Other processes** that append to the evidence file: `docs/protocol.md:116` puts
  them outside the version. One process after another is modelled.
- The **package** re-exports names. `argparse`, the Python version and platform in
  the gate's report: no property is about them.
- Formats, wording and messages of exceptions: an exception is one outcome.
- Process crashes for the broker: its store is in memory and dies with it.
- A **composition** that supervises, mints, consumes and records: the parts share no
  state, only values that each part's constructor has checked, and the broker
  takes any decision as its input, candidate or not; a product of the modules
  would add states and no question.

## 6. Plan

1. *(done)* Ledger, Broker; Contracts, Risk, Council, Deliberation, Supervisor;
   Sentinel, Execution, Supervision; Sanitize, Recorder, Journal; Evidence; Gate.
2. *(done)* Proofs of every safety invariant, action property and refinement that
   a passing run checks.
3. *(done)* Theorems without a run: the shipped scenarios pass; decisions do not
   depend on the order of a panel; what the ledger and the journal promise of
   themselves; what remains true where code and documentation disagree.

What could come next is outside of what is here: a model of text, for the parts of
the sanitizer that look for paths and URLs, and a bound on how long a thread may
wait for a lock, which needs a fair lock.
