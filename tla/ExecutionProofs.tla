-------------------------- MODULE ExecutionProofs ---------------------------
(***************************************************************************)
(* Proofs about Execution: what the Sentinel says of two looks at one      *)
(* execution is what happened between them, for any number of happenings   *)
(* and of looks and any thresholds.                                        *)
(*                                                                         *)
(* The inductive invariant says how any earlier look is related to any     *)
(* later one and to the present: the truth only grows, attempts only go    *)
(* up, and within one attempt the counters and the monotonic clock have    *)
(* gone up by what really happened.                                        *)
(***************************************************************************)
EXTENDS Execution, SupervisionProofs

Truths == [forward : Nat, work : Nat, age : Nat, happenings : Nat]

Looks == [shot : ExecutionSnapshots, truth : Truths]

Now == [shot |-> live, truth |-> truth]

(* How far a snapshot says that its attempt has come.                      *)
Steps(s) == s.progress + s.artifact + (IF s.terminal THEN 1 ELSE 0)

(* The look l is not earlier than the look e.                              *)
Since(e, l) ==
    /\ e.truth.forward <= l.truth.forward
    /\ e.truth.work <= l.truth.work
    /\ e.truth.age <= l.truth.age
    /\ e.shot.attempt <= l.shot.attempt
    /\ e.shot.attempt = l.shot.attempt =>
          /\ e.shot.progress <= l.shot.progress
          /\ e.shot.artifact <= l.shot.artifact
          /\ e.shot.terminal => l.shot.terminal
          /\ Steps(l.shot) - Steps(e.shot) = l.truth.forward - e.truth.forward
          /\ l.shot.activity - e.shot.activity = l.truth.work - e.truth.work
          /\ l.shot.offset - e.shot.offset = l.truth.age - e.truth.age

Inv ==
    /\ live \in ExecutionSnapshots
    /\ truth \in Truths
    /\ kept \in Seq(Looks)
    /\ \A i \in 1..Len(kept) : Since(kept[i], Now)
    /\ \A i, j \in 1..Len(kept) : i <= j => Since(kept[i], kept[j])

-----------------------------------------------------------------------------
(* The invariant.                                                          *)

(* A look is not earlier than itself.                                      *)
LEMMA SinceItself == ASSUME NEW x \in Looks PROVE Since(x, x)
BY DEF Since, Looks, ExecutionSnapshots, Truths, Steps

(* Every step but Capture leaves the looks alone and takes the present     *)
(* further from each of them.                                              *)
LEMMA PresentMovesOn ==
    ASSUME Inv, NEW x \in Looks, Since(x, Now),
           live' \in ExecutionSnapshots, truth' \in Truths, Since(Now, Now')
    PROVE  Since(x, Now')
<1>1. Now \in Looks /\ Now' \in Looks
    BY DEF Now, Looks, Inv
<1> QED BY <1>1 DEF Since, Looks, ExecutionSnapshots, Truths, Steps, Now

(* Whatever happens keeps the invariant.                                   *)
LEMMA HappeningStep ==
    ASSUME Inv, live' \in ExecutionSnapshots, truth' \in Truths, kept' = kept,
           Since(Now, Now')
    PROVE  Inv'
<1>1. ASSUME NEW i \in 1..Len(kept) PROVE Since(kept[i], Now')
    BY PresentMovesOn, ElementOfSeq DEF Inv
<1> QED BY <1>1 DEF Inv

LEMMA InitInv == Init => Inv
BY DEF Init, Inv, Fresh, ExecutionSnapshots, Truths

LEMMA CaptureStep == ASSUME Inv, Capture PROVE Inv'
<1>1. Now \in Looks /\ kept' = Append(kept, Now) /\ live' = live /\ truth' = truth
    BY DEF Inv, Capture, Now, Looks
<1>2. /\ kept' \in Seq(Looks)
      /\ Len(kept') = Len(kept) + 1
      /\ \A i \in 1..Len(kept) : kept'[i] = kept[i]
      /\ kept'[Len(kept) + 1] = Now
    BY <1>1, AppendProperties DEF Inv
<1>3. Now' = Now /\ Len(kept) \in Nat
    BY <1>1, LenProperties DEF Now, Inv
<1>4. Since(Now, Now)
    BY <1>1, SinceItself
<1>5. \A i \in 1..Len(kept') : Since(kept'[i], Now')
    BY <1>2, <1>3, <1>4 DEF Inv
<1>6. ASSUME NEW i \in 1..Len(kept'), NEW j \in 1..Len(kept'), i <= j
      PROVE  Since(kept'[i], kept'[j])
  <2>1. CASE j = Len(kept) + 1
      BY <1>2, <1>3, <1>5, <2>1
  <2>2. CASE j # Len(kept) + 1
      BY <1>2, <1>3, <1>6, <2>2 DEF Inv
  <2> QED BY <2>1, <2>2
<1> QED BY <1>1, <1>2, <1>5, <1>6 DEF Inv

LEMMA StepInv == Inv /\ [Next]_vars => Inv'
<1> SUFFICES ASSUME Inv, [Next]_vars PROVE Inv'
    OBVIOUS
<1>a. live \in ExecutionSnapshots /\ truth \in Truths
    BY DEF Inv
<1>1. ASSUME NEW c \in {"progress", "artifact"}, Advance(c) PROVE Inv'
  <2>1. truth' \in Truths /\ kept' = kept
      BY <1>a, <1>1 DEF Advance, Happens, Truths
  <2>2. live' \in ExecutionSnapshots
      BY <1>a, <1>1 DEF Advance, ExecutionSnapshots
  <2>3. Since(Now, Now')
      BY <1>a, <1>1 DEF Advance, Happens, Now, Since, Steps, ExecutionSnapshots, Truths
  <2> QED BY <2>1, <2>2, <2>3, HappeningStep
<1>2. CASE Work
  <2>1. truth' \in Truths /\ kept' = kept
      BY <1>a, <1>2 DEF Work, Happens, Truths
  <2>2. live' \in ExecutionSnapshots
      BY <1>a, <1>2 DEF Work, ExecutionSnapshots
  <2>3. Since(Now, Now')
      BY <1>a, <1>2 DEF Work, Happens, Now, Since, Steps, ExecutionSnapshots, Truths
  <2> QED BY <2>1, <2>2, <2>3, HappeningStep
<1>3. ASSUME NEW f \in {"authorization", "credential", "blocked"}, Pause(f) PROVE Inv'
  <2>1. truth' \in Truths /\ kept' = kept
      BY <1>a, <1>3 DEF Pause, Happens, Truths
  <2>2. live' \in ExecutionSnapshots
      BY <1>a, <1>3 DEF Pause, ExecutionSnapshots
  <2>3. Since(Now, Now')
      BY <1>a, <1>3 DEF Pause, Happens, Now, Since, Steps, ExecutionSnapshots, Truths
  <2> QED BY <2>1, <2>2, <2>3, HappeningStep
<1>4. CASE Finish
  <2>1. truth' \in Truths /\ kept' = kept
      BY <1>a, <1>4 DEF Finish, Happens, Truths
  <2>2. live' \in ExecutionSnapshots
      BY <1>a, <1>4 DEF Finish, ExecutionSnapshots
  <2>3. Since(Now, Now')
      BY <1>a, <1>4 DEF Finish, Happens, Now, Since, Steps, ExecutionSnapshots, Truths
  <2> QED BY <2>1, <2>2, <2>3, HappeningStep
<1>5. CASE Restart
  <2>1. truth' \in Truths /\ kept' = kept
      BY <1>a, <1>5 DEF Restart, Fresh, Happens, Truths
  <2>2. live' \in ExecutionSnapshots
      BY <1>a, <1>5 DEF Restart, Fresh, ExecutionSnapshots
  <2>3. Since(Now, Now')
      BY <1>a, <1>5 DEF Restart, Fresh, Happens, Now, Since, Steps, ExecutionSnapshots, Truths
  <2> QED BY <2>1, <2>2, <2>3, HappeningStep
<1>6. CASE Tick
  <2>0. Happens("age")
      BY <1>6 DEF Tick
  <2>1. truth' \in Truths /\ kept' = kept
      BY <1>a, <2>0 DEF Happens, Truths
  <2>2. PICK later \in ExecutionSnapshots : later = [live EXCEPT !.utc = live.utc + 1]
    <3>1. [live EXCEPT !.utc = live.utc + 1] \in ExecutionSnapshots
        BY <1>a DEF ExecutionSnapshots
    <3> QED BY <3>1
  <2>3. live' = [later EXCEPT !.offset = later.offset + 1]
      BY <1>a, <2>2, <1>6 DEF Tick, ExecutionSnapshots
  <2>4. live' \in ExecutionSnapshots
      BY <2>3 DEF ExecutionSnapshots
  <2>5. Since(Now, Now')
    <3>1. live'.offset = live.offset + 1
        BY <1>a, <2>2, <2>3 DEF ExecutionSnapshots
    <3>2. /\ live'.attempt = live.attempt /\ live'.progress = live.progress
          /\ live'.activity = live.activity /\ live'.artifact = live.artifact
          /\ live'.terminal = live.terminal
        BY <1>a, <2>2, <2>3 DEF ExecutionSnapshots
    <3> QED BY <1>a, <2>0, <2>4, <3>1, <3>2
            DEF Happens, Now, Since, Steps, ExecutionSnapshots, Truths
  <2> QED BY <2>1, <2>4, <2>5, HappeningStep
<1>7. CASE SetBack
  <2>1. truth' \in Truths /\ kept' = kept
      BY <1>a, <1>7 DEF SetBack, Happens, Truths
  <2>2. live' \in ExecutionSnapshots
      BY <1>a, <1>7 DEF SetBack, ExecutionSnapshots
  <2>3. Since(Now, Now')
      BY <1>a, <1>7 DEF SetBack, Happens, Now, Since, Steps, ExecutionSnapshots, Truths
  <2> QED BY <2>1, <2>2, <2>3, HappeningStep
<1>8. CASE Capture
    BY <1>8, CaptureStep
<1>9. CASE UNCHANGED vars
    BY <1>9 DEF vars, Inv, Now
<1> QED BY <1>1, <1>2, <1>3, <1>4, <1>5, <1>6, <1>7, <1>8, <1>9 DEF Next, Closed

(* Every look is related to every later one by what really happened.       *)
THEOREM Invariance == Spec => []Inv
BY InitInv, StepInv, PTL DEF Spec

-----------------------------------------------------------------------------
(* The properties.                                                         *)

(* What the invariant says of two looks.                                   *)
LEMMA TwoLooks ==
    ASSUME Inv, NEW i \in DOMAIN kept, NEW j \in DOMAIN kept
    PROVE  /\ kept[i] \in Looks /\ kept[j] \in Looks
           /\ kept[i].shot \in ExecutionSnapshots /\ kept[j].shot \in ExecutionSnapshots
           /\ kept[i].truth \in Truths /\ kept[j].truth \in Truths
           /\ i \in Int /\ j \in Int
           /\ i <= j => Since(kept[i], kept[j])
<1>1. DOMAIN kept = 1..Len(kept) /\ kept[i] \in Looks /\ kept[j] \in Looks
    BY LenProperties, ElementOfSeq DEF Inv
<1> QED BY <1>1 DEF Inv, Looks

(* A comparison that does not raise compares, and has the class that       *)
(* Classification gives it; one that raises has none.                      *)
LEMMA SaysMeans ==
    ASSUME Inv, NEW i \in DOMAIN kept, NEW j \in DOMAIN kept, NEW t \in Thresholds
    PROVE  LET f == kept[i].shot
               s == kept[j].shot
           IN  /\ Compared(i, j, t) \in SentinelResults \cup {Raised}
               /\ Compared(i, j, t) # Raised <=> Compares(f, s, t)
               /\ Says(i, j, t) = "REAL_PROGRESS" <=>
                     Compares(f, s, t) /\ Progress(f, s) # {}
               /\ Says(i, j, t) = "PROBABLE_INACTIVITY" <=>
                     /\ Compares(f, s, t) /\ Progress(f, s) = {}
                     /\ ~s.blocked /\ ~s.credential /\ ~s.authorization
                     /\ ~(s.activity > f.activity) /\ s.offset - f.offset >= t
               /\ Says(i, j, t) = "ACTIVITY_WITHOUT_PROGRESS" =>
                     s.activity > f.activity
<1> DEFINE f == kept[i].shot
           s == kept[j].shot
           r == CompareSnapshots(f, s, t)
<1>1. f \in ExecutionSnapshots /\ s \in ExecutionSnapshots /\ t \in Int
    BY TwoLooks, ExecutionAssumption
<1>2. Raised \notin SentinelResults /\ Raised \notin SentinelClasses
    BY ExecutionAssumption
<1>3. "REAL_PROGRESS" # Raised /\ "PROBABLE_INACTIVITY" # Raised
      /\ "ACTIVITY_WITHOUT_PROGRESS" # Raised
    BY <1>2 DEF SentinelClasses
<1>4. Compared(i, j, t) = r /\ Says(i, j, t) = ClassOf(r)
    BY DEF Compared, Says
<1>5. CASE Compares(f, s, t)
  <2>1. r \in SentinelResults
        /\ r.class = IF Progress(f, s) # {} THEN "REAL_PROGRESS"
                     ELSE IF s.blocked THEN "EXTERNAL_BLOCK"
                     ELSE IF s.credential \/ s.authorization THEN "LEGITIMATE_WAIT"
                     ELSE IF s.activity > f.activity THEN "ACTIVITY_WITHOUT_PROGRESS"
                     ELSE IF s.offset - f.offset >= t THEN "PROBABLE_INACTIVITY"
                     ELSE "INDETERMINATE"
      BY <1>1, <1>5, Classification
  <2>2. ClassOf(r) = r.class /\ r # Raised
      BY <1>2, <2>1 DEF ClassOf
  <2> HIDE DEF r, f, s
  <2> QED BY <1>4, <1>5, <2>1, <2>2 DEF f, s
<1>6. CASE ~Compares(f, s, t)
  <2>1. r = Raised /\ ClassOf(r) = Raised
      BY <1>1, <1>2, <1>6, Classification DEF ClassOf
  <2> HIDE DEF r
  <2> QED BY <1>3, <1>4, <1>6, <2>1
<1> QED BY <1>5, <1>6

(* Looks and their comparisons are what they should be: the Sentinel       *)
(* answers or raises, whatever it is shown.                                *)
THEOREM TypeCorrectness == Spec => []TypeOK
<1>1. ASSUME Inv PROVE TypeOK
  <2>1. \A i \in DOMAIN kept : kept[i].shot \in ExecutionSnapshots
      BY <1>1, TwoLooks
  <2>2. \A i, j \in DOMAIN kept, t \in Thresholds :
            Compared(i, j, t) \in SentinelResults \cup {Raised}
      BY <1>1, SaysMeans
  <2> QED BY <1>1, <2>1, <2>2 DEF TypeOK, Inv
<1> QED BY <1>1, Invariance, PTL

(* Of two looks at one attempt: the snapshots differ by what really       *)
(* happened between them.                                                  *)
LEMMA Between ==
    ASSUME Inv, NEW i \in DOMAIN kept, NEW j \in DOMAIN kept, i <= j,
           kept[i].shot.attempt = kept[j].shot.attempt
    PROVE  LET f == kept[i].shot
               s == kept[j].shot
               was == kept[i].truth
               is == kept[j].truth
           IN  /\ f.progress <= s.progress /\ f.activity <= s.activity
               /\ f.artifact <= s.artifact /\ f.offset <= s.offset
               /\ Progress(f, s) # {} <=> was.forward # is.forward
               /\ s.activity > f.activity <=> was.work # is.work
               /\ s.offset - f.offset = is.age - was.age
<1>1. Since(kept[i], kept[j])
      /\ kept[i].shot \in ExecutionSnapshots /\ kept[j].shot \in ExecutionSnapshots
      /\ kept[i].truth \in Truths /\ kept[j].truth \in Truths
    BY TwoLooks
<1> DEFINE f == kept[i].shot
           s == kept[j].shot
<1>2. Progress(f, s) # {} <=>
         \/ s.progress > f.progress
         \/ s.artifact > f.artifact
         \/ s.terminal /\ ~f.terminal
    BY <1>1, ProgressMeans
<1>3. /\ f.progress <= s.progress /\ f.artifact <= s.artifact
      /\ f.terminal => s.terminal
      /\ Steps(s) - Steps(f) = kept[j].truth.forward - kept[i].truth.forward
      /\ s.activity - f.activity = kept[j].truth.work - kept[i].truth.work
      /\ s.offset - f.offset = kept[j].truth.age - kept[i].truth.age
      /\ kept[i].truth.work <= kept[j].truth.work
      /\ kept[i].truth.age <= kept[j].truth.age
    BY <1>1 DEF Since
<1>4. /\ f.progress \in Nat /\ s.progress \in Nat /\ f.artifact \in Nat /\ s.artifact \in Nat
      /\ f.activity \in Nat /\ s.activity \in Nat /\ f.offset \in Nat /\ s.offset \in Nat
      /\ f.terminal \in BOOLEAN /\ s.terminal \in BOOLEAN
      /\ kept[i].truth.forward \in Nat /\ kept[j].truth.forward \in Nat
      /\ kept[i].truth.work \in Nat /\ kept[j].truth.work \in Nat
      /\ kept[i].truth.age \in Nat /\ kept[j].truth.age \in Nat
    BY <1>1 DEF ExecutionSnapshots, Truths
<1> HIDE DEF f, s
<1>5. f.activity <= s.activity /\ f.offset <= s.offset
      /\ (s.activity > f.activity <=> kept[i].truth.work # kept[j].truth.work)
    BY <1>3, <1>4
<1>6. (\/ s.progress > f.progress
       \/ s.artifact > f.artifact
       \/ s.terminal /\ ~f.terminal) <=> kept[i].truth.forward # kept[j].truth.forward
  <2> DEFINE end(x) == IF x.terminal THEN 1 ELSE 0
  <2>1. /\ end(f) \in Nat /\ end(s) \in Nat
        /\ end(f) <= end(s)
        /\ s.terminal /\ ~f.terminal <=> end(s) # end(f)
      BY <1>3, <1>4
  <2>2. (s.progress + s.artifact + end(s)) - (f.progress + f.artifact + end(f))
           = kept[j].truth.forward - kept[i].truth.forward
      BY <1>3 DEF Steps
  <2> HIDE DEF end
  <2>3. PICK a \in Nat, b \in Nat, c \in Nat, x \in Nat, y \in Nat, z \in Nat :
            /\ a = f.progress /\ b = f.artifact /\ c = end(f)
            /\ x = s.progress /\ y = s.artifact /\ z = end(s)
      BY <1>4, <2>1
  <2>4. PICK m \in Nat, n \in Nat :
            m = kept[i].truth.forward /\ n = kept[j].truth.forward
      BY <1>4
  <2>5. a <= x /\ b <= y /\ c <= z /\ (x + y + z) - (a + b + c) = n - m
      BY <1>3, <2>1, <2>2, <2>3, <2>4
  <2>6. (x > a \/ y > b \/ z # c) <=> m # n
      BY <2>5
  <2> QED BY <2>1, <2>3, <2>4, <2>6
<1> QED BY <1>2, <1>3, <1>5, <1>6 DEF f, s

(* Two looks in the order they were taken compare when they are of one     *)
(* attempt and the wall clock was not set back further than it went on.    *)
LEMMA InOrder ==
    ASSUME Inv, NEW i \in DOMAIN kept, NEW j \in DOMAIN kept, i <= j,
           NEW t \in Thresholds
    PROVE  Compared(i, j, t) # Raised <=>
              /\ t >= 0
              /\ kept[i].shot.attempt = kept[j].shot.attempt
              /\ kept[i].shot.utc <= kept[j].shot.utc
<1>1. kept[i].shot \in ExecutionSnapshots /\ kept[j].shot \in ExecutionSnapshots
    BY TwoLooks
<1>2. Compared(i, j, t) # Raised <=> t >= 0 /\ Comparable(kept[i].shot, kept[j].shot)
    BY SaysMeans DEF Compares
<1> QED BY <1>1, <1>2, ComparableMeans, Between

(* "Probable inactivity" is never said of an execution that moved or       *)
(* worked between the looks or that waits or is blocked at the second, nor *)
(* before the threshold.                                                   *)
THEOREM InactivityTold == Spec => []InactivityIsReal
<1>1. ASSUME Inv PROVE InactivityIsReal
  <2> SUFFICES ASSUME NEW p \in Before, NEW t \in Thresholds,
                      Says(p[1], p[2], t) = "PROBABLE_INACTIVITY"
               PROVE  LET was == kept[p[1]].truth
                          is  == kept[p[2]].truth
                          now == kept[p[2]].shot
                      IN  /\ was.forward = is.forward /\ was.work = is.work
                          /\ is.age - was.age >= t
                          /\ ~now.authorization /\ ~now.credential /\ ~now.blocked
      BY DEF InactivityIsReal
  <2> DEFINE i == p[1]
             j == p[2]
  <2>1. i \in DOMAIN kept /\ j \in DOMAIN kept /\ i <= j
      BY DEF Before
  <2> HIDE DEF i, j
  <2>2. LET f == kept[i].shot
            s == kept[j].shot
        IN  /\ Compares(f, s, t) /\ Progress(f, s) = {}
            /\ ~s.blocked /\ ~s.credential /\ ~s.authorization
            /\ ~(s.activity > f.activity) /\ s.offset - f.offset >= t
      BY <1>1, <2>1, SaysMeans DEF i, j
  <2>3. kept[i].shot.attempt = kept[j].shot.attempt
      BY <2>2 DEF Compares, Comparable
  <2> QED BY <1>1, <2>1, <2>2, <2>3, Between DEF i, j
<1> QED BY <1>1, Invariance, PTL

(* Progress is reported if and only if there was some.                     *)
THEOREM ProgressTold == Spec => []ProgressIffReal
<1>1. ASSUME Inv PROVE ProgressIffReal
  <2> SUFFICES ASSUME NEW p \in Before, NEW t \in Thresholds,
                      Compared(p[1], p[2], t) # Raised
               PROVE  Says(p[1], p[2], t) = "REAL_PROGRESS" <=>
                         kept[p[1]].truth.forward # kept[p[2]].truth.forward
      BY DEF ProgressIffReal
  <2> DEFINE i == p[1]
             j == p[2]
  <2>1. i \in DOMAIN kept /\ j \in DOMAIN kept /\ i <= j
      BY DEF Before
  <2> HIDE DEF i, j
  <2>2. kept[i].shot.attempt = kept[j].shot.attempt
      BY <1>1, <2>1, InOrder DEF i, j
  <2>3. Says(i, j, t) = "REAL_PROGRESS" <=> Progress(kept[i].shot, kept[j].shot) # {}
      BY <1>1, <2>1, SaysMeans DEF i, j
  <2> QED BY <1>1, <2>1, <2>2, <2>3, Between DEF i, j
<1> QED BY <1>1, Invariance, PTL

(* Looks in the wrong order are refused when the monotonic clock moved     *)
(* between them, and show neither progress nor activity when it did not.   *)
THEOREM SwappedTold == Spec => []SwappedPairTellsNothing
<1>1. ASSUME Inv PROVE SwappedPairTellsNothing
  <2> SUFFICES ASSUME NEW p \in Before, NEW t \in Thresholds,
                      Compared(p[2], p[1], t) # Raised
               PROVE  /\ kept[p[1]].truth.age = kept[p[2]].truth.age
                      /\ Says(p[2], p[1], t) # "REAL_PROGRESS"
                      /\ Says(p[2], p[1], t) # "ACTIVITY_WITHOUT_PROGRESS"
      BY DEF SwappedPairTellsNothing
  <2> DEFINE i == p[1]
             j == p[2]
  <2>1. i \in DOMAIN kept /\ j \in DOMAIN kept /\ i <= j
      BY DEF Before
  <2> HIDE DEF i, j
  <2>2. Compares(kept[j].shot, kept[i].shot, t)
      BY <1>1, <2>1, SaysMeans DEF i, j
  <2>3. /\ kept[i].shot \in ExecutionSnapshots /\ kept[j].shot \in ExecutionSnapshots
        /\ kept[i].truth \in Truths /\ kept[j].truth \in Truths
        /\ Since(kept[i], kept[j])
      BY <1>1, <2>1, TwoLooks
  <2>4. /\ kept[i].shot.attempt = kept[j].shot.attempt
        /\ kept[j].shot.offset <= kept[i].shot.offset
        /\ kept[j].shot.progress <= kept[i].shot.progress
        /\ kept[j].shot.activity <= kept[i].shot.activity
        /\ kept[j].shot.artifact <= kept[i].shot.artifact
      BY <2>2, <2>3, ComparableMeans DEF Compares
  <2>5. kept[i].shot.terminal => kept[j].shot.terminal
      BY <2>3, <2>4 DEF Since
  <2>6. /\ ~(kept[i].shot.progress > kept[j].shot.progress)
        /\ ~(kept[i].shot.artifact > kept[j].shot.artifact)
        /\ ~(kept[i].shot.activity > kept[j].shot.activity)
    <3>1. /\ kept[i].shot.progress <= kept[j].shot.progress
          /\ kept[i].shot.artifact <= kept[j].shot.artifact
          /\ kept[i].shot.activity <= kept[j].shot.activity
        BY <1>1, <2>1, <2>4, Between
    <3>2. \A x \in {i, j} : /\ kept[x].shot.progress \in Nat
                            /\ kept[x].shot.artifact \in Nat
                            /\ kept[x].shot.activity \in Nat
        BY <2>3 DEF ExecutionSnapshots
    <3> QED BY <3>1, <3>2
  <2>7. Progress(kept[j].shot, kept[i].shot) = {}
      BY <2>3, <2>5, <2>6, ProgressMeans
  <2>8. Says(j, i, t) # "REAL_PROGRESS" /\ Says(j, i, t) # "ACTIVITY_WITHOUT_PROGRESS"
      BY <1>1, <2>1, <2>6, <2>7, SaysMeans
  <2>9. kept[i].truth.age = kept[j].truth.age
    <3>1. /\ kept[j].shot.offset - kept[i].shot.offset
                = kept[j].truth.age - kept[i].truth.age
          /\ kept[i].truth.age <= kept[j].truth.age
        BY <2>3, <2>4 DEF Since
    <3>2. kept[i].truth.age \in Nat /\ kept[j].truth.age \in Nat
          /\ kept[i].shot.offset \in Nat /\ kept[j].shot.offset \in Nat
        BY <2>3 DEF ExecutionSnapshots, Truths
    <3> QED BY <2>4, <3>1, <3>2
  <2> QED BY <2>8, <2>9 DEF i, j
<1> QED BY <1>1, Invariance, PTL

(* What is said of two looks that compare, in terms of what happened.      *)
LEMMA InOrderSays ==
    ASSUME Inv, NEW i \in DOMAIN kept, NEW j \in DOMAIN kept, i <= j,
           NEW t \in Thresholds, Compared(i, j, t) # Raised
    PROVE  LET was == kept[i].truth
               is  == kept[j].truth
               s   == kept[j].shot
           IN  Says(i, j, t) =
                  IF was.forward # is.forward THEN "REAL_PROGRESS"
                  ELSE IF s.blocked THEN "EXTERNAL_BLOCK"
                  ELSE IF s.credential \/ s.authorization THEN "LEGITIMATE_WAIT"
                  ELSE IF was.work # is.work THEN "ACTIVITY_WITHOUT_PROGRESS"
                  ELSE IF is.age - was.age >= t THEN "PROBABLE_INACTIVITY"
                  ELSE "INDETERMINATE"
<1> DEFINE f == kept[i].shot
           s == kept[j].shot
           r == CompareSnapshots(f, s, t)
<1>1. f \in ExecutionSnapshots /\ s \in ExecutionSnapshots /\ t \in Int
    BY TwoLooks, ExecutionAssumption
<1>2. Compares(f, s, t)
    BY SaysMeans
<1>3. r \in SentinelResults
      /\ r.class = IF Progress(f, s) # {} THEN "REAL_PROGRESS"
                   ELSE IF s.blocked THEN "EXTERNAL_BLOCK"
                   ELSE IF s.credential \/ s.authorization THEN "LEGITIMATE_WAIT"
                   ELSE IF s.activity > f.activity THEN "ACTIVITY_WITHOUT_PROGRESS"
                   ELSE IF s.offset - f.offset >= t THEN "PROBABLE_INACTIVITY"
                   ELSE "INDETERMINATE"
    BY <1>1, <1>2, Classification
<1>4. Says(i, j, t) = r.class
    BY <1>3 DEF Says, Compared, ClassOf
<1>5. f.attempt = s.attempt
    BY InOrder
<1>6. /\ Progress(f, s) # {} <=> kept[i].truth.forward # kept[j].truth.forward
      /\ s.activity > f.activity <=> kept[i].truth.work # kept[j].truth.work
      /\ s.offset - f.offset = kept[j].truth.age - kept[i].truth.age
    BY <1>5, Between
<1> HIDE DEF f, r
<1> QED BY <1>3, <1>4, <1>6

(* The answers about two neighbouring spans determine the one about both   *)
(* together, but for work that a wait at the middle look covers; silence   *)
(* is measured anew.                                                       *)
THEOREM ChainsTold == Spec => []ChainsAgree
<1>1. ASSUME Inv PROVE ChainsAgree
  <2> SUFFICES ASSUME NEW i \in DOMAIN kept, NEW j \in DOMAIN kept,
                      NEW k \in DOMAIN kept, NEW t \in Thresholds,
                      i < j, j < k, Compared(i, j, t) # Raised, Compared(j, k, t) # Raised
               PROVE  LET near == {Says(i, j, t), Says(j, k, t)}
                          last == Says(j, k, t)
                          far  == Says(i, k, t)
                      IN  /\ Compared(i, k, t) # Raised
                          /\ far = "REAL_PROGRESS" <=> "REAL_PROGRESS" \in near
                          /\ "REAL_PROGRESS" \notin near =>
                                /\ far \in Waits \/ last \in Waits => far = last
                                /\ "ACTIVITY_WITHOUT_PROGRESS" \in near /\ last \notin Waits =>
                                      far = "ACTIVITY_WITHOUT_PROGRESS"
                                /\ near \subseteq Silences =>
                                      far = IF kept[k].truth.age - kept[i].truth.age >= t
                                            THEN "PROBABLE_INACTIVITY" ELSE "INDETERMINATE"
      BY DEF ChainsAgree
  <2>1. i <= j /\ j <= k /\ i <= k
      BY <1>1, TwoLooks
  <2>2. \A x \in {i, j, k} : kept[x].shot \in ExecutionSnapshots /\ kept[x].truth \in Truths
      BY <1>1, TwoLooks
  <2>3. /\ t >= 0
        /\ kept[i].shot.attempt = kept[j].shot.attempt
        /\ kept[j].shot.attempt = kept[k].shot.attempt
        /\ kept[i].shot.utc <= kept[j].shot.utc
        /\ kept[j].shot.utc <= kept[k].shot.utc
      BY <1>1, <2>1, InOrder
  <2>4. Compared(i, k, t) # Raised
    <3>1. kept[i].shot.utc <= kept[k].shot.utc
        BY <2>2, <2>3 DEF ExecutionSnapshots
    <3> QED BY <1>1, <2>1, <2>3, <3>1, InOrder
  (* What only grows is unchanged over both spans when it is over each.    *)
  <2>5. /\ kept[i].truth.forward # kept[k].truth.forward <=>
              \/ kept[i].truth.forward # kept[j].truth.forward
              \/ kept[j].truth.forward # kept[k].truth.forward
        /\ kept[i].truth.work # kept[k].truth.work <=>
              \/ kept[i].truth.work # kept[j].truth.work
              \/ kept[j].truth.work # kept[k].truth.work
    <3>1. /\ kept[i].truth.forward <= kept[j].truth.forward
          /\ kept[j].truth.forward <= kept[k].truth.forward
          /\ kept[i].truth.work <= kept[j].truth.work
          /\ kept[j].truth.work <= kept[k].truth.work
        BY <1>1, <2>1, TwoLooks DEF Since
    <3>2. \A x \in {i, j, k} : kept[x].truth.forward \in Nat /\ kept[x].truth.work \in Nat
        BY <2>2 DEF Truths
    <3> QED BY <3>1, <3>2
  <2> DEFINE Answer(moved, s, worked, long) ==
                 IF moved THEN "REAL_PROGRESS"
                 ELSE IF s.blocked THEN "EXTERNAL_BLOCK"
                 ELSE IF s.credential \/ s.authorization THEN "LEGITIMATE_WAIT"
                 ELSE IF worked THEN "ACTIVITY_WITHOUT_PROGRESS"
                 ELSE IF long THEN "PROBABLE_INACTIVITY"
                 ELSE "INDETERMINATE"
  <2>6. /\ Says(i, j, t) = Answer(kept[i].truth.forward # kept[j].truth.forward,
                                  kept[j].shot,
                                  kept[i].truth.work # kept[j].truth.work,
                                  kept[j].truth.age - kept[i].truth.age >= t)
        /\ Says(j, k, t) = Answer(kept[j].truth.forward # kept[k].truth.forward,
                                  kept[k].shot,
                                  kept[j].truth.work # kept[k].truth.work,
                                  kept[k].truth.age - kept[j].truth.age >= t)
        /\ Says(i, k, t) = Answer(kept[i].truth.forward # kept[k].truth.forward,
                                  kept[k].shot,
                                  kept[i].truth.work # kept[k].truth.work,
                                  kept[k].truth.age - kept[i].truth.age >= t)
      BY <1>1, <2>1, <2>4, InOrderSays
  <2> QED BY <2>4, <2>5, <2>6 DEF Waits, Silences
<1> QED BY <1>1, Invariance, PTL
=============================================================================
