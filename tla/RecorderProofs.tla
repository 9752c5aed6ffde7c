--------------------------- MODULE RecorderProofs ---------------------------
(***************************************************************************)
(* Proofs about Recorder, for any number of threads, recorders, records    *)
(* and crashes and any ids.                                                *)
(*                                                                         *)
(* The inductive invariant: the lock of a recorder is held by the thread   *)
(* that writes through it (LocksHeld); every call that has not ended has a *)
(* thread and a record of its own (CallsOwned); what is on disk for a      *)
(* record was made once and, while the call lasts, is what its stream no   *)
(* longer holds (PiecesAccounted); and nothing of the same recorder comes  *)
(* after the first piece of a line that is being written but the rest of   *)
(* it (NothingBehind), which is why lines of one recorder do not mix.      *)
(***************************************************************************)
EXTENDS Recorder, SequenceTheorems, FiniteSetTheorems, TLAPS

Busy(t) == pc[t] # "idle"

LocksHeld ==
    \A r \in Recorders, t \in Threads :
        lock[r] = t <=> pc[t] = "writing" /\ job[t].via = r

CallsOwned ==
    /\ \A t \in Threads : Busy(t) =>
          job[t] \in Jobs /\ Admissible(job[t].id) /\ outcome[job[t].rec] = "PENDING"
    /\ \A t, u \in Threads :
          Busy(t) /\ Busy(u) /\ job[t].rec = job[u].rec => t = u
    /\ \A x \in Records : outcome[x] = "PENDING" =>
          \E t \in Threads : Busy(t) /\ job[t].rec = x

(* What is on disk came from a call, was made once, the text before the    *)
(* line break; a call that returned has its line break on disk.            *)
FileMade ==
    /\ \A k \in DOMAIN file : outcome[At(k).rec] # "UNUSED" /\ Admissible(At(k).id)
    /\ \A j, k \in DOMAIN file : At(j).rec = At(k).rec =>
          /\ At(j) = At(k)
          /\ file[j].part = file[k].part => j = k
          /\ file[j].part = "body" /\ file[k].part = "end" => j < k
    /\ \A x \in Records : outcome[x] = "RECORDED" =>
          \E k \in DOMAIN file : At(k).rec = x /\ file[k].part = "end"

PiecesAccounted ==
    \A t \in Threads : Busy(t) =>
        /\ \A k \in DOMAIN file : At(k).rec = job[t].rec =>
              /\ pc[t] = "writing" /\ At(k) = job[t]
              /\ left[t] # Line
              /\ file[k].part = "end" => left[t] = <<>>
        /\ pc[t] = "writing" /\ left[t] = <<>> =>
              \E k \in DOMAIN file : At(k).rec = job[t].rec /\ file[k].part = "end"

NothingBehind ==
    \A t \in Threads : pc[t] = "writing" =>
        \A j, k \in DOMAIN file :
            j < k /\ At(j) = job[t] => At(k) = job[t] \/ At(k).via # job[t].via

Inv ==
    /\ TypeOK
    /\ LocksHeld
    /\ CallsOwned
    /\ FileMade
    /\ PiecesAccounted
    /\ NothingBehind
    /\ OneRecorderNeverInterleaves

Entries == [job : Jobs, part : {"body", "end"}]
Lefts   == {<<>>, <<"end">>, Line}

-----------------------------------------------------------------------------
(* What a write puts on disk.                                              *)

(* The file as a sequence.                                                 *)
LEMMA FileIsSeq ==
    ASSUME TypeOK
    PROVE  /\ file \in Seq(Entries)
           /\ Len(file) \in Nat /\ DOMAIN file = 1..Len(file)
           /\ \A k \in DOMAIN file : file[k] \in Entries /\ At(k) \in Jobs
<1>1. file \in Seq(Entries)
    BY DEF TypeOK, Entries
<1>2. Len(file) \in Nat /\ DOMAIN file = 1..Len(file)
    BY <1>1, LenProperties
<1>3. \A k \in DOMAIN file : file[k] \in Entries
    BY <1>1, <1>2, ElementOfSeq
<1> QED BY <1>1, <1>2, <1>3 DEF Entries, At

(* The first n of the pieces that are left go to the end of the file.      *)
LEMMA Written ==
    ASSUME TypeOK, NEW t \in Threads, pc[t] = "writing", job[t] \in Jobs, NEW n \in 1..Len(left[t]),
           file' = file \o [k \in 1..n |-> [job |-> job[t], part |-> left[t][k]]]
    PROVE  /\ file' \in Seq(Entries)
           /\ n \in Nat /\ Len(file') = Len(file) + n
           /\ DOMAIN file' = 1..Len(file')
           /\ \A k \in DOMAIN file : file'[k] = file[k]
           /\ \A k \in (Len(file) + 1)..Len(file') :
                 file'[k] = [job |-> job[t], part |-> left[t][k - Len(file)]]
<1> DEFINE new == [k \in 1..n |-> [job |-> job[t], part |-> left[t][k]]]
<1>1. left[t] \in Seq({"body", "end"})
  <2>1. left[t] \in Lefts
      BY DEF TypeOK, Lefts
  <2>2. <<>> \in Seq({"body", "end"}) /\ <<"end">> \in Seq({"body", "end"})
        /\ Line \in Seq({"body", "end"})
      BY DEF Line
  <2> QED BY <2>1, <2>2 DEF Lefts
<1>2. Len(left[t]) \in Nat /\ \A k \in 1..Len(left[t]) : left[t][k] \in {"body", "end"}
    BY <1>1, LenProperties, ElementOfSeq
<1>3. n \in Nat /\ \A k \in 1..n : new[k] \in Entries
    BY <1>2 DEF Entries
<1>4. new \in Seq(Entries)
    BY <1>3, IsASeq DEF Entries
<1>5. Len(new) = n
    BY <1>3, <1>4, LenProperties
<1>6. file \in Seq(Entries) /\ Len(file) \in Nat /\ DOMAIN file = 1..Len(file)
    BY FileIsSeq
<1> HIDE DEF new
<1>7. /\ file' \in Seq(Entries)
      /\ Len(file') = Len(file) + n
      /\ \A k \in 1..(Len(file) + n) :
            file'[k] = IF k <= Len(file) THEN file[k] ELSE new[k - Len(file)]
    BY <1>4, <1>5, <1>6, ConcatProperties DEF new
<1>8. DOMAIN file' = 1..Len(file')
    BY <1>7, LenProperties
<1>9. \A k \in DOMAIN file : file'[k] = file[k]
    BY <1>3, <1>6, <1>7
<1>10. ASSUME NEW k \in (Len(file) + 1)..Len(file')
       PROVE  file'[k] = [job |-> job[t], part |-> left[t][k - Len(file)]]
  <2>1. k \in 1..(Len(file) + n) /\ ~(k <= Len(file)) /\ k - Len(file) \in 1..n
      BY <1>3, <1>6, <1>7
  <2> QED BY <1>7, <2>1 DEF new
<1> QED BY <1>3, <1>7, <1>8, <1>9, <1>10

(* The new pieces are of the thread's record, which had none of them on    *)
(* disk, and what is not on disk is still left.                            *)
LEMMA NewPieces ==
    ASSUME TypeOK, NEW t \in Threads, job[t] \in Jobs, WriteSome(t)
    PROVE  LET New == DOMAIN file' \ DOMAIN file
           IN  /\ file' \in Seq(Entries) /\ left' \in [Threads -> Lefts]
               /\ DOMAIN file \subseteq DOMAIN file'
               /\ \A k \in DOMAIN file : file'[k] = file[k]
               /\ \A j \in DOMAIN file, k \in New : j < k
               /\ \A k \in New : file'[k].job = job[t]
               /\ \A k \in New : \/ file'[k].part = "body" /\ left[t] = Line
                                 \/ file'[k].part = "end" /\ left'[t] = <<>>
               /\ \A j, k \in New : file'[j].part = file'[k].part => j = k
               /\ \A j, k \in New : file'[j].part = "body" /\ file'[k].part = "end" => j < k
               /\ left[t] # <<>> /\ left'[t] # Line
               /\ left'[t] = <<>> => \E k \in New : file'[k].part = "end"
               /\ \A u \in Threads \ {t} : left'[u] = left[u]
<1> DEFINE New == DOMAIN file' \ DOMAIN file
           m == Len(file)
<1>1. PICK n \in 1..Len(left[t]) :
          /\ file' = file \o [k \in 1..n |-> [job |-> job[t], part |-> left[t][k]]]
          /\ left' = [left EXCEPT ![t] = SubSeq(left[t], n + 1, Len(left[t]))]
    BY DEF WriteSome
<1>2. /\ file' \in Seq(Entries)
      /\ n \in Nat /\ Len(file') = m + n /\ DOMAIN file' = 1..Len(file')
      /\ \A k \in DOMAIN file : file'[k] = file[k]
      /\ \A k \in (m + 1)..Len(file') :
            file'[k] = [job |-> job[t], part |-> left[t][k - m]]
    BY <1>1, Written DEF WriteSome
<1>3. m \in Nat /\ DOMAIN file = 1..m
    BY FileIsSeq
<1>4. New = (m + 1)..(m + n)
    BY <1>2, <1>3
<1>5. left[t] \in Lefts /\ left' = [left EXCEPT ![t] = left'[t]]
      /\ left'[t] = SubSeq(left[t], n + 1, Len(left[t]))
    BY <1>1 DEF TypeOK, Lefts
<1>6. \/ left[t] = Line /\ n = 1 /\ left'[t] = <<"end">>
      \/ left[t] = Line /\ n = 2 /\ left'[t] = <<>>
      \/ left[t] = <<"end">> /\ n = 1 /\ left'[t] = <<>>
  <2>1. left[t] # <<>>
      BY <1>1
  <2>2. CASE left[t] = <<"end">>
    <3>1. n = 1 /\ Len(left[t]) = 1
        BY <1>1, <2>2
    <3>2. left'[t] = <<>>
        BY <1>5, <3>1, SubSeqEmpty
    <3> QED BY <2>2, <3>1, <3>2
  <2>3. CASE left[t] = Line
    <3>1. Len(left[t]) = 2 /\ (n = 1 \/ n = 2)
        BY <1>1, <2>3 DEF Line
    <3>2. n = 2 => left'[t] = <<>>
        BY <1>5, <3>1, SubSeqEmpty
    <3>3. n = 1 => left'[t] = <<"end">>
      <4>1. Line \in Seq({"body", "end"}) /\ Line[2] = "end" /\ Len(Line) = 2
          BY DEF Line
      <4>2. \A i \in 2..2 : Line[i] \in {"body", "end"}
          BY <4>1
      <4>3. /\ SubSeq(Line, 2, 2) \in Seq({"body", "end"})
            /\ Len(SubSeq(Line, 2, 2)) = 1
            /\ SubSeq(Line, 2, 2)[1] = "end"
          BY <4>1, <4>2, SubSeqProperties
      <4>4. <<"end">> \in Seq({"body", "end"}) /\ Len(<<"end">>) = 1 /\ <<"end">>[1] = "end"
          OBVIOUS
      <4>5. \A i \in 1..1 : SubSeq(Line, 2, 2)[i] = <<"end">>[i]
          BY <4>3, <4>4
      <4>6. SubSeq(Line, 2, 2) = <<"end">>
          BY <4>3, <4>4, <4>5, SeqEqual
      <4> QED BY <1>5, <2>3, <3>1, <4>6
    <3> QED BY <2>3, <3>1, <3>2, <3>3
  <2> QED BY <1>5, <2>1, <2>2, <2>3 DEF Lefts
<1>7. left' \in [Threads -> Lefts] /\ \A u \in Threads \ {t} : left'[u] = left[u]
    BY <1>5, <1>6 DEF TypeOK, Lefts
<1>8. /\ DOMAIN file \subseteq DOMAIN file'
      /\ \A j \in DOMAIN file, k \in New : j < k
    BY <1>2, <1>3, <1>4
<1>9. \A k \in New : file'[k].job = job[t] /\ file'[k].part = left[t][k - m]
  <2> SUFFICES ASSUME NEW k \in New
               PROVE  file'[k].job = job[t] /\ file'[k].part = left[t][k - m]
      OBVIOUS
  <2>1. k \in (m + 1)..Len(file')
      BY <1>2, <1>3, <1>4
  <2>2. file'[k] = [job |-> job[t], part |-> left[t][k - m]]
      BY <1>2, <2>1
  <2> QED BY <2>2
<1>10. CASE left[t] = Line /\ n = 1 /\ left'[t] = <<"end">>
  <2>1. New = {m + 1} /\ file'[m + 1].part = "body"
      BY <1>3, <1>4, <1>9, <1>10 DEF Line
  <2>2. left'[t] # Line /\ left'[t] # <<>> /\ left[t] # <<>>
      BY <1>10 DEF Line
  <2> QED BY <1>2, <1>7, <1>8, <1>9, <1>10, <2>1, <2>2
<1>11. CASE left[t] = Line /\ n = 2 /\ left'[t] = <<>>
  <2>1. New = {m + 1, m + 2} /\ file'[m + 1].part = "body" /\ file'[m + 2].part = "end"
      BY <1>3, <1>4, <1>9, <1>11 DEF Line
  <2>2. left'[t] # Line /\ left[t] # <<>> /\ m + 1 < m + 2
      BY <1>3, <1>11 DEF Line
  <2> QED BY <1>2, <1>7, <1>8, <1>9, <1>11, <2>1, <2>2
<1>12. CASE left[t] = <<"end">> /\ n = 1 /\ left'[t] = <<>>
  <2>1. New = {m + 1} /\ file'[m + 1].part = "end"
      BY <1>3, <1>4, <1>9, <1>12
  <2>2. left'[t] # Line /\ left[t] # <<>>
      BY <1>12 DEF Line
  <2> QED BY <1>2, <1>7, <1>8, <1>9, <1>12, <2>1, <2>2
<1> QED BY <1>6, <1>10, <1>11, <1>12
-----------------------------------------------------------------------------
(* The invariant, action by action.                                        *)

LEMMA InitInv == Init => Inv
<1> SUFFICES ASSUME Init PROVE Inv
    OBVIOUS
<1>1. TypeOK
  <2>1. file \in Seq([job : Jobs, part : {"body", "end"}])
      BY EmptySeq DEF Init
  <2>2. crashes \in 0..MaxCrashes
      BY RecorderAssumption DEF Init
  <2> QED BY <2>1, <2>2 DEF Init, TypeOK, Outcomes
<1>2. LocksHeld
    BY RecorderAssumption DEF Init, LocksHeld
<1>3. CallsOwned
    BY DEF Init, CallsOwned, Busy
<1>4. DOMAIN file = {}
    BY DEF Init
<1>5. FileMade
    BY <1>4 DEF Init, FileMade
<1>6. PiecesAccounted /\ NothingBehind
    BY DEF Init, PiecesAccounted, NothingBehind, Busy
<1>7. OneRecorderNeverInterleaves
    BY <1>4 DEF OneRecorderNeverInterleaves
<1> QED BY <1>1, <1>2, <1>3, <1>5, <1>6, <1>7 DEF Inv

(* While the file stays as it is, nothing in it mixes.                     *)
LEMMA SameFile ==
    ASSUME OneRecorderNeverInterleaves, file' = file
    PROVE  OneRecorderNeverInterleaves'
BY DEF OneRecorderNeverInterleaves, At

LEMMA RecordStep ==
    ASSUME Inv, NEW t \in Threads, NEW r \in Recorders, NEW id \in Names, Record(t, r, id)
    PROVE  Inv'
<1> USE DEF Inv
<1>1. PICK x \in Records :
          /\ IsNext(x)
          /\ outcome' = [outcome EXCEPT ![x] = "PENDING"]
          /\ job' = [job EXCEPT ![t] = [rec |-> x, via |-> r, id |-> id]]
    BY DEF Record
<1>2. /\ pc[t] = "idle" /\ Admissible(id) /\ pc' = [pc EXCEPT ![t] = "waiting"]
      /\ UNCHANGED <<left, failed, lock, file, crashes>>
    BY DEF Record, Goto
<1>3. outcome[x] = "UNUSED"
    BY <1>1 DEF IsNext
<1>4. [rec |-> x, via |-> r, id |-> id] \in Jobs
    BY DEF Jobs
<1>5. TypeOK'
    BY <1>1, <1>2, <1>4 DEF TypeOK, Outcomes
<1>6. /\ pc'[t] = "waiting" /\ job'[t].rec = x /\ job'[t] \in Jobs /\ job'[t].id = id
      /\ \A u \in Threads \ {t} : pc'[u] = pc[u] /\ job'[u] = job[u]
      /\ outcome'[x] = "PENDING"
      /\ \A y \in Records \ {x} : outcome'[y] = outcome[y]
    BY <1>1, <1>2, <1>4 DEF TypeOK
<1>7. \A u \in Threads : Busy(u) => job[u].rec # x /\ job[u].rec \in Records
    BY <1>3 DEF CallsOwned, Jobs
<1>8. \A k \in DOMAIN file : At(k).rec # x /\ At(k).rec \in Records
    BY <1>3, FileIsSeq DEF FileMade, Jobs
<1>9. LocksHeld'
    BY <1>2, <1>6 DEF LocksHeld
<1>10. CallsOwned'
    BY <1>2, <1>6, <1>7 DEF CallsOwned, Busy
<1>11. FileMade'
    BY <1>2, <1>6, <1>8 DEF FileMade, At
<1>12. PiecesAccounted'
    BY <1>2, <1>6, <1>8 DEF PiecesAccounted, Busy, At
<1>13. NothingBehind'
    BY <1>2, <1>6 DEF NothingBehind, At
<1> QED BY <1>2, <1>5, <1>9, <1>10, <1>11, <1>12, <1>13, SameFile

LEMMA RefusedStep ==
    ASSUME Inv, NEW t \in Threads, NEW id \in Names, RecordRefused(t, id)
    PROVE  Inv'
<1> USE DEF Inv
<1>1. PICK x \in Records : IsNext(x) /\ outcome' = [outcome EXCEPT ![x] = "RAISED"]
    BY DEF RecordRefused
<1>2. UNCHANGED <<pc, job, left, failed, lock, file, crashes>>
    BY DEF RecordRefused
<1>3. /\ outcome[x] = "UNUSED" /\ outcome'[x] = "RAISED"
      /\ \A y \in Records \ {x} : outcome'[y] = outcome[y]
    BY <1>1 DEF IsNext, TypeOK
<1>4. TypeOK'
    BY <1>1, <1>2 DEF TypeOK, Outcomes
<1>5. \A u \in Threads : Busy(u) => job[u].rec # x /\ job[u].rec \in Records
    BY <1>3 DEF CallsOwned, Jobs
<1>6. \A k \in DOMAIN file : At(k).rec # x /\ At(k).rec \in Records
    BY <1>3, FileIsSeq DEF FileMade, Jobs
<1>7. LocksHeld' /\ PiecesAccounted' /\ NothingBehind'
    BY <1>2 DEF LocksHeld, PiecesAccounted, NothingBehind, Busy, At
<1>8. CallsOwned'
    BY <1>2, <1>3, <1>5 DEF CallsOwned, Busy
<1>9. FileMade'
    BY <1>2, <1>3, <1>6 DEF FileMade, At
<1> QED BY <1>2, <1>4, <1>7, <1>8, <1>9, SameFile

LEMMA AcquireStep ==
    ASSUME Inv, NEW t \in Threads, Acquire(t)
    PROVE  Inv'
<1> USE DEF Inv
<1>1. /\ pc[t] = "waiting" /\ lock[job[t].via] = NoThread
      /\ lock' = [lock EXCEPT ![job[t].via] = t]
      /\ left' = [left EXCEPT ![t] = Line]
      /\ pc' = [pc EXCEPT ![t] = "writing"]
      /\ UNCHANGED <<job, failed, file, outcome, crashes>>
    BY DEF Acquire, Enter, Goto
<1>2. job[t] \in Jobs /\ job[t].via \in Recorders
    BY <1>1 DEF CallsOwned, Busy, Jobs
<1>3. TypeOK'
    BY <1>1, <1>2 DEF TypeOK
<1>4. /\ pc'[t] = "writing" /\ left'[t] = Line /\ lock'[job[t].via] = t
      /\ \A u \in Threads \ {t} : pc'[u] = pc[u] /\ left'[u] = left[u]
      /\ \A q \in Recorders \ {job[t].via} : lock'[q] = lock[q]
    BY <1>1, <1>2 DEF TypeOK
<1>5. LocksHeld'
    BY <1>1, <1>2, <1>4, RecorderAssumption DEF LocksHeld
<1>6. CallsOwned'
    BY <1>1, <1>4 DEF CallsOwned, Busy
<1>7. FileMade'
    BY <1>1 DEF FileMade, At
<1>8. \A k \in DOMAIN file : At(k).rec # job[t].rec
    BY <1>1 DEF PiecesAccounted, Busy
<1>9. Line # <<>>
    BY DEF Line
<1>10. PiecesAccounted'
    BY <1>1, <1>4, <1>8, <1>9 DEF PiecesAccounted, Busy, At
<1>11. NothingBehind'
    BY <1>1, <1>4, <1>8 DEF NothingBehind, At
<1> QED BY <1>1, <1>3, <1>5, <1>6, <1>7, <1>10, <1>11, SameFile

(* A call ends; when it returns, its line break is on disk.                *)
LEMMA LeaveStep ==
    ASSUME Inv, NEW t \in Threads, pc[t] = "writing", NEW result \in {"RECORDED", "RAISED"},
           result = "RECORDED" => left[t] = <<>>, Leave(t, result)
    PROVE  Inv'
<1> USE DEF Inv
<1>1. /\ outcome' = [outcome EXCEPT ![job[t].rec] = result]
      /\ job' = [job EXCEPT ![t] = NoThread]
      /\ left' = [left EXCEPT ![t] = <<>>]
      /\ failed' = [failed EXCEPT ![t] = FALSE]
      /\ pc' = [pc EXCEPT ![t] = "idle"]
      /\ UNCHANGED <<file, crashes>>
      /\ lock' = [lock EXCEPT ![job[t].via] = NoThread]
    BY DEF Leave, Finish, Goto
<1>2. job[t] \in Jobs /\ job[t].via \in Recorders /\ job[t].rec \in Records
    BY DEF CallsOwned, Busy, Jobs
<1>3. TypeOK'
    BY <1>1, <1>2 DEF TypeOK, Outcomes
<1>4. /\ pc'[t] = "idle" /\ lock'[job[t].via] = NoThread
      /\ outcome'[job[t].rec] = result
      /\ \A u \in Threads \ {t} : pc'[u] = pc[u] /\ left'[u] = left[u] /\ job'[u] = job[u]
      /\ \A q \in Recorders \ {job[t].via} : lock'[q] = lock[q]
      /\ \A x \in Records \ {job[t].rec} : outcome'[x] = outcome[x]
    BY <1>1, <1>2 DEF TypeOK
<1>5. LocksHeld'
    BY <1>2, <1>4, RecorderAssumption DEF LocksHeld
<1>6. CallsOwned'
  <2>1. \A u \in Threads \ {t} : Busy(u) => job[u].rec # job[t].rec /\ job[u].rec \in Records
      BY DEF CallsOwned, Busy, Jobs
  <2> QED BY <1>4, <2>1 DEF CallsOwned, Busy
<1>7. FileMade'
  <2>1. outcome[job[t].rec] = "PENDING"
      BY DEF CallsOwned, Busy
  <2>2. \A k \in DOMAIN file : At(k).rec \in Records
      BY FileIsSeq DEF Jobs
  <2>3. \A k \in DOMAIN file : outcome'[At(k).rec] # "UNUSED"
      BY <1>4, <2>2 DEF FileMade
  <2>4. \A x \in Records : outcome'[x] = "RECORDED" =>
            \E k \in DOMAIN file : At(k).rec = x /\ file[k].part = "end"
      BY <1>4 DEF FileMade, PiecesAccounted, Busy
  <2> QED BY <1>1, <2>3, <2>4 DEF FileMade, At
<1>8. PiecesAccounted'
    BY <1>1, <1>4 DEF PiecesAccounted, Busy, At
<1>9. NothingBehind'
    BY <1>1, <1>4 DEF NothingBehind, At
<1> QED BY <1>1, <1>3, <1>5, <1>6, <1>7, <1>8, <1>9, SameFile

LEMMA CrashStep == ASSUME Inv, Crash PROVE Inv'
<1> USE DEF Inv
<1>1. TypeOK'
  <2>1. crashes' \in 0..MaxCrashes
      BY RecorderAssumption DEF Crash, TypeOK
  <2> QED BY <2>1 DEF Crash, TypeOK, Outcomes
<1>2. LocksHeld'
    BY RecorderAssumption DEF Crash, LocksHeld
<1>3. CallsOwned'
    BY DEF Crash, CallsOwned, Busy
<1>4. FileMade'
  <2>1. \A k \in DOMAIN file : At(k).rec \in Records
      BY FileIsSeq DEF Jobs
  <2> QED BY <2>1 DEF Crash, FileMade, At
<1>5. PiecesAccounted' /\ NothingBehind'
    BY DEF Crash, PiecesAccounted, NothingBehind, Busy
<1> QED BY <1>1, <1>2, <1>3, <1>4, <1>5, SameFile DEF Crash
(* A write: only pieces of the writer's own line get to the end of the     *)
(* file, and the others that write have another recorder.                  *)
LEMMA WriteSomeStep ==
    ASSUME Inv, NEW t \in Threads, WriteSome(t)
    PROVE  Inv'
<1> USE DEF Inv
<1> DEFINE New == DOMAIN file' \ DOMAIN file
<1>1. pc[t] = "writing" /\ UNCHANGED <<pc, job, failed, lock, outcome, crashes>>
    BY DEF WriteSome
<1>2. /\ job[t] \in Jobs /\ Admissible(job[t].id) /\ job[t].rec \in Records
      /\ outcome[job[t].rec] = "PENDING"
    BY <1>1 DEF CallsOwned, Busy, Jobs
<1>3. /\ file' \in Seq(Entries) /\ left' \in [Threads -> Lefts]
      /\ DOMAIN file \subseteq DOMAIN file'
      /\ \A k \in DOMAIN file : file'[k] = file[k]
      /\ \A j \in DOMAIN file, k \in New : j < k
      /\ \A k \in New : file'[k].job = job[t]
      /\ \A k \in New : \/ file'[k].part = "body" /\ left[t] = Line
                        \/ file'[k].part = "end" /\ left'[t] = <<>>
      /\ \A j, k \in New : file'[j].part = file'[k].part => j = k
      /\ \A j, k \in New : file'[j].part = "body" /\ file'[k].part = "end" => j < k
      /\ left[t] # <<>> /\ left'[t] # Line
      /\ left'[t] = <<>> => \E k \in New : file'[k].part = "end"
      /\ \A u \in Threads \ {t} : left'[u] = left[u]
    BY <1>2, NewPieces
<1>4. /\ DOMAIN file \in SUBSET Int /\ DOMAIN file' \in SUBSET Int
      /\ \A k \in DOMAIN file : file[k].part \in {"body", "end"}
    BY <1>3, FileIsSeq, LenProperties DEF Entries
<1>5. \A k \in DOMAIN file' : k \in DOMAIN file \/ k \in New
    OBVIOUS
<1> HIDE DEF New
<1>6. \A k \in DOMAIN file : At(k).rec = job[t].rec =>
          At(k) = job[t] /\ left[t] # Line /\ file[k].part # "end"
    BY <1>1, <1>3 DEF PiecesAccounted, Busy
<1>7. TypeOK'
    BY <1>1, <1>3 DEF TypeOK, Entries, Lefts
<1>8. LocksHeld' /\ CallsOwned'
    BY <1>1 DEF LocksHeld, CallsOwned, Busy
<1>9. FileMade'
  <2>1. \A k \in DOMAIN file' : outcome[file'[k].job.rec] # "UNUSED" /\ Admissible(file'[k].job.id)
      BY <1>2, <1>3, <1>5 DEF FileMade, At
  <2>2. ASSUME NEW j \in DOMAIN file', NEW k \in DOMAIN file', file'[j].job.rec = file'[k].job.rec
        PROVE  /\ file'[j].job = file'[k].job
               /\ file'[j].part = file'[k].part => j = k
               /\ file'[j].part = "body" /\ file'[k].part = "end" => j < k
    <3>1. CASE j \in DOMAIN file /\ k \in DOMAIN file
        BY <1>3, <2>2, <3>1 DEF FileMade, At
    <3>2. CASE j \in New /\ k \in New
        BY <1>3, <3>2
    <3>3. CASE j \in DOMAIN file /\ k \in New
      <4>1. At(j).rec = job[t].rec /\ file'[j] = file[j] /\ file'[k].job = job[t] /\ j < k
          BY <1>3, <2>2, <3>3 DEF At
      <4>2. At(j) = job[t] /\ left[t] # Line /\ file[j].part # "end"
          BY <1>6, <3>3, <4>1
      <4>3. file'[k].part = "end"
          BY <1>3, <3>3, <4>2
      <4> QED BY <4>1, <4>2, <4>3 DEF At
    <3>4. CASE j \in New /\ k \in DOMAIN file
      <4>1. At(k).rec = job[t].rec /\ file'[k] = file[k] /\ file'[j].job = job[t]
          BY <1>3, <2>2, <3>4 DEF At
      <4>2. At(k) = job[t] /\ left[t] # Line /\ file[k].part # "end"
          BY <1>6, <3>4, <4>1
      <4>3. file'[j].part = "end"
          BY <1>3, <3>4, <4>2
      <4> QED BY <4>1, <4>2, <4>3 DEF At
    <3> QED BY <1>5, <3>1, <3>2, <3>3, <3>4
  <2>3. ASSUME NEW x \in Records, outcome[x] = "RECORDED"
        PROVE  \E k \in DOMAIN file' : file'[k].job.rec = x /\ file'[k].part = "end"
    <3>1. PICK k \in DOMAIN file : At(k).rec = x /\ file[k].part = "end"
        BY <2>3 DEF FileMade
    <3> QED BY <1>3, <3>1 DEF At
  <2> QED BY <1>1, <2>1, <2>2, <2>3 DEF FileMade, At
<1>10. PiecesAccounted'
  <2> SUFFICES ASSUME NEW u \in Threads, Busy(u)
               PROVE  /\ \A k \in DOMAIN file' : file'[k].job.rec = job[u].rec =>
                            /\ pc[u] = "writing" /\ file'[k].job = job[u]
                            /\ left'[u] # Line
                            /\ file'[k].part = "end" => left'[u] = <<>>
                      /\ pc[u] = "writing" /\ left'[u] = <<>> =>
                            \E k \in DOMAIN file' :
                                file'[k].job.rec = job[u].rec /\ file'[k].part = "end"
      BY <1>1 DEF PiecesAccounted, Busy, At
  <2>1. CASE u = t
    <3>1. ASSUME NEW k \in DOMAIN file', file'[k].job.rec = job[t].rec
          PROVE  /\ file'[k].job = job[t]
                 /\ file'[k].part = "end" => left'[t] = <<>>
      <4>1. CASE k \in New
          BY <1>3, <4>1
      <4>2. CASE k \in DOMAIN file
          BY <1>3, <1>6, <3>1, <4>2 DEF At
      <4> QED BY <1>5, <4>1, <4>2
    <3>2. left'[t] = <<>> => \E k \in DOMAIN file' :
              file'[k].job.rec = job[t].rec /\ file'[k].part = "end"
        BY <1>3 DEF New
    <3> QED BY <1>1, <1>3, <2>1, <3>1, <3>2
  <2>2. CASE u # t
    <3>1. job[u].rec # job[t].rec /\ left'[u] = left[u]
        BY <1>1, <1>3, <2>2 DEF CallsOwned, Busy
    <3>2. \A k \in DOMAIN file' : file'[k].job.rec = job[u].rec => k \in DOMAIN file
        BY <1>3, <1>5, <3>1
    <3> QED BY <1>3, <3>1, <3>2 DEF PiecesAccounted, At
  <2> QED BY <2>1, <2>2
<1>11. \A u \in Threads \ {t} : pc[u] = "writing" => job[u].via # job[t].via
    BY <1>1 DEF LocksHeld, TypeOK, CallsOwned, Busy, Jobs
<1>12. NothingBehind'
  <2> SUFFICES ASSUME NEW u \in Threads, pc[u] = "writing",
                      NEW j \in DOMAIN file', NEW k \in DOMAIN file',
                      j < k, file'[j].job = job[u]
               PROVE  file'[k].job = job[u] \/ file'[k].job.via # job[u].via
      BY <1>1 DEF NothingBehind, At
  <2>1. CASE k \in New
    <3>1. file'[k].job = job[t]
        BY <1>3, <2>1
    <3> QED BY <1>11, <3>1
  <2>2. CASE k \in DOMAIN file
    <3>1. j \in DOMAIN file
        BY <1>3, <1>4, <1>5, <2>2
    <3> QED BY <1>3, <2>2, <3>1 DEF NothingBehind, At
  <2> QED BY <1>5, <2>1, <2>2
<1>13. OneRecorderNeverInterleaves'
  <2> SUFFICES ASSUME NEW j \in DOMAIN file', NEW k \in DOMAIN file', NEW l \in DOMAIN file',
                      j < k, k < l, file'[j].job = file'[l].job
               PROVE  file'[k].job = file'[j].job \/ file'[k].job.via # file'[j].job.via
      BY DEF OneRecorderNeverInterleaves, At
  <2>1. CASE l \in DOMAIN file
    <3>1. j \in DOMAIN file /\ k \in DOMAIN file
        BY <1>3, <1>4, <1>5, <2>1
    <3> QED BY <1>3, <2>1, <3>1 DEF OneRecorderNeverInterleaves, At
  <2>2. CASE l \in New
    <3>1. file'[j].job = job[t]
        BY <1>3, <2>2
    <3>2. CASE k \in New
        BY <1>3, <3>1, <3>2
    <3>3. CASE k \in DOMAIN file
      <4>1. j \in DOMAIN file
          BY <1>3, <1>4, <1>5, <3>3
      <4> QED BY <1>1, <1>3, <3>1, <3>3, <4>1 DEF NothingBehind, At
    <3> QED BY <1>5, <3>2, <3>3
  <2> QED BY <1>5, <2>1, <2>2
<1> QED BY <1>7, <1>8, <1>9, <1>10, <1>12, <1>13

LEMMA WriteFailsStep == ASSUME Inv, NEW t \in Threads, WriteFails(t) PROVE Inv'
<1> USE DEF Inv, WriteFails
<1>1. TypeOK'
    BY DEF TypeOK
<1>2. LocksHeld' /\ CallsOwned' /\ FileMade' /\ PiecesAccounted' /\ NothingBehind'
    BY DEF LocksHeld, CallsOwned, FileMade, PiecesAccounted, NothingBehind, Busy, At
<1> QED BY <1>1, <1>2, SameFile

LEMMA StepInv == Inv /\ [Next]_vars => Inv'
<1> SUFFICES ASSUME Inv, [Next]_vars PROVE Inv'
    OBVIOUS
<1>1. ASSUME NEW t \in Threads, Call(t) PROVE Inv'
    BY <1>1, RecordStep, RefusedStep DEF Call
<1>2. ASSUME NEW t \in Threads, Step(t) PROVE Inv'
  <2>1. CASE Acquire(t)
      BY <2>1, AcquireStep
  <2>2. CASE OpenFails(t)
      BY <2>2, LeaveStep DEF OpenFails
  <2>3. CASE WriteSome(t)
      BY <2>3, WriteSomeStep
  <2>4. CASE WriteFails(t)
      BY <2>4, WriteFailsStep
  <2>5. CASE WriteFailsAgain(t)
      BY <2>5, LeaveStep DEF WriteFailsAgain
  <2>6. CASE Close(t)
    <3>1. CASE failed[t]
        BY <2>6, <3>1, LeaveStep DEF Close
    <3>2. CASE ~failed[t]
        BY <2>6, <3>2, LeaveStep DEF Close
    <3> QED BY <3>1, <3>2
  <2> QED BY <1>2, <2>1, <2>2, <2>3, <2>4, <2>5, <2>6 DEF Step
<1>3. CASE Crash
    BY <1>3, CrashStep
<1>4. CASE UNCHANGED vars
    BY <1>4 DEF vars, Inv, TypeOK, LocksHeld, CallsOwned, FileMade, PiecesAccounted,
                NothingBehind, OneRecorderNeverInterleaves, Busy, At
<1> QED BY <1>1, <1>2, <1>3, <1>4 DEF Next, Done

(* The inductive invariant of the recorder.                                *)
THEOREM Invariance == Spec => []Inv
BY InitInv, StepInv, PTL DEF Spec

(* Every variable keeps its type: the file holds pieces of lines of calls, *)
(* and a stream only holds the rest of one line.                           *)
THEOREM TypeCorrectness == Spec => []TypeOK
<1>1. Inv => TypeOK
    BY DEF Inv
<1> QED BY <1>1, Invariance, PTL

(* Threads that share a recorder never write into each other's lines.      *)
THEOREM LinesDoNotMix == Spec => []OneRecorderNeverInterleaves
<1>1. Inv => OneRecorderNeverInterleaves
    BY DEF Inv
<1> QED BY <1>1, Invariance, PTL

(* A recorded line that cannot be used has its cause right beside it.      *)
THEOREM DamageBeside == Spec => []DamageIsLocal
<1>1. ASSUME Inv PROVE DamageIsLocal
  <2> SUFFICES ASSUME NEW k \in DOMAIN file, file[k].part = "body",
                      outcome[At(k).rec] = "RECORDED", ~Intact(k)
               PROVE  \/ /\ k > 1 /\ file[k - 1].part = "body"
                         /\ \/ outcome[At(k - 1).rec] \in {"RAISED", "LOST"}
                            \/ At(k - 1).via # At(k).via
                      \/ k < Len(file) /\ At(k + 1).via # At(k).via
      BY DEF DamageIsLocal
  <2>1. Len(file) \in Nat /\ DOMAIN file = 1..Len(file) /\ k \in Int
        /\ \A j \in DOMAIN file : file[j] \in Entries /\ At(j) \in Jobs
      BY <1>1, FileIsSeq DEF Inv
  <2>2. PICK e \in DOMAIN file : At(e).rec = At(k).rec /\ file[e].part = "end"
      BY <1>1, <2>1 DEF Inv, FileMade, Jobs
  <2>3. At(e) = At(k) /\ k < e
      BY <1>1, <2>2 DEF Inv, FileMade
  <2>4. k < Len(file) /\ k + 1 \in DOMAIN file
      BY <2>1, <2>2, <2>3
  <2>5. CASE At(k + 1) # At(k)
    <3>1. k + 1 # e /\ k < k + 1 /\ k + 1 < e
        BY <2>1, <2>2, <2>3, <2>5
    <3> QED BY <1>1, <2>2, <2>3, <2>4, <2>5, <3>1 DEF Inv, OneRecorderNeverInterleaves
  <2>6. CASE At(k + 1) = At(k)
    <3>1. k > 1 /\ file[k - 1].part # "end"
        BY <2>4, <2>6 DEF Intact
    <3>2. k - 1 \in DOMAIN file /\ k - 1 < k /\ k - 1 # k
        BY <2>1, <3>1
    <3>3. file[k - 1].part = "body" /\ At(k - 1) \in Jobs
        BY <2>1, <3>1, <3>2 DEF Entries
    <3>4. At(k - 1) # At(k)
        BY <1>1, <3>2, <3>3 DEF Inv, FileMade
    <3>5. outcome[At(k - 1).rec] \in {"PENDING", "RECORDED", "RAISED", "LOST"}
        BY <1>1, <3>2, <3>3 DEF Inv, FileMade, TypeOK, Outcomes, Jobs
    <3>6. CASE outcome[At(k - 1).rec] = "PENDING"
      <4>1. PICK t \in Threads : Busy(t) /\ job[t].rec = At(k - 1).rec
          BY <1>1, <3>3, <3>6 DEF Inv, CallsOwned, Jobs
      <4>2. pc[t] = "writing" /\ At(k - 1) = job[t]
          BY <1>1, <3>2, <4>1 DEF Inv, PiecesAccounted
      <4> QED BY <1>1, <3>1, <3>2, <3>3, <3>4, <4>2 DEF Inv, NothingBehind
    <3>7. CASE outcome[At(k - 1).rec] = "RECORDED"
      <4>1. PICK d \in DOMAIN file : At(d).rec = At(k - 1).rec /\ file[d].part = "end"
          BY <1>1, <3>3, <3>7 DEF Inv, FileMade, Jobs
      <4>2. At(d) = At(k - 1) /\ k - 1 < d /\ d # k
          BY <1>1, <3>2, <3>3, <4>1 DEF Inv, FileMade
      <4>3. k < d
          BY <2>1, <4>1, <4>2
      <4> QED BY <1>1, <3>1, <3>2, <3>3, <3>4, <4>1, <4>2, <4>3
              DEF Inv, OneRecorderNeverInterleaves
    <3> QED BY <3>1, <3>3, <3>5, <3>6, <3>7
  <2> QED BY <2>5, <2>6
<1> QED BY <1>1, Invariance, PTL
-----------------------------------------------------------------------------
(* The refinement.                                                         *)

(* The line breaks on disk for a record; the abstract journal counts them. *)
Breaks(x) == {k \in DOMAIN file : At(k).rec = x /\ file[k].part = "end"}

Landed == [x \in Records |-> Cardinality(Breaks(x))]

(* There is at most one.                                                   *)
LEMMA OneBreak ==
    ASSUME Inv, NEW x \in Records
    PROVE  /\ Breaks(x) = {} => Landed[x] = 0
           /\ Breaks(x) # {} => Landed[x] = 1
<1>1. CASE Breaks(x) = {}
    BY <1>1, FS_EmptySet DEF Landed
<1>2. CASE Breaks(x) # {}
  <2>1. PICK k : k \in Breaks(x)
      BY <1>2
  <2>2. Breaks(x) = {k}
      BY <2>1 DEF Inv, FileMade, Breaks
  <2> QED BY <1>2, <2>2, FS_Singleton DEF Landed
<1> QED BY <1>1, <1>2

(* While the file stays as it is, so does what has landed.                 *)
LEMMA LandedStays == ASSUME file' = file PROVE Landed' = Landed
BY DEF Landed, Breaks, At

(* The journal's next-state relation, or no step, spelled out in the       *)
(* recorder's terms.                                                       *)
JournalStep ==
    \/ \E x \in Records :
          \/ /\ outcome[x] = "UNUSED" /\ outcome' = [outcome EXCEPT ![x] = "PENDING"]
             /\ Landed' = Landed
          \/ /\ outcome[x] = "PENDING" /\ Landed[x] = 0
             /\ Landed' = [Landed EXCEPT ![x] = 1] /\ outcome' = outcome
          \/ /\ outcome[x] = "PENDING" /\ Landed[x] = 1
             /\ outcome' = [outcome EXCEPT ![x] = "RECORDED"] /\ Landed' = Landed
          \/ /\ outcome[x] \in {"UNUSED", "PENDING"}
             /\ outcome' = [outcome EXCEPT ![x] = "RAISED"] /\ Landed' = Landed
    \/ /\ outcome' = [x \in Records |-> IF outcome[x] = "PENDING" THEN "LOST" ELSE outcome[x]]
       /\ Landed' = Landed
    \/ Landed' = Landed /\ outcome' = outcome

LEMMA JournalStepIsNext == JournalStep => [J!Next]_(J!vars)
BY DEF JournalStep, Landed, Breaks, At, J!Next, J!vars, J!Begin, J!Land, J!Answer, J!Raise, J!Die

LEMMA LeaveIsStep ==
    ASSUME Inv, NEW t \in Threads, pc[t] = "writing", NEW result \in {"RECORDED", "RAISED"},
           result = "RECORDED" => left[t] = <<>>, Leave(t, result)
    PROVE  JournalStep
<1>1. job[t].rec \in Records /\ outcome[job[t].rec] = "PENDING"
    BY DEF Inv, CallsOwned, Busy, Jobs
<1>2. outcome' = [outcome EXCEPT ![job[t].rec] = result] /\ Landed' = Landed
    BY LandedStays DEF Leave, Finish
<1>3. CASE result = "RAISED"
    BY <1>1, <1>2, <1>3 DEF JournalStep
<1>4. CASE result = "RECORDED"
  <2>1. Breaks(job[t].rec) # {}
      BY <1>4 DEF Inv, PiecesAccounted, Busy, Breaks
  <2>2. Landed[job[t].rec] = 1
      BY <1>1, <2>1, OneBreak
  <2> QED BY <1>1, <1>2, <1>4, <2>2 DEF JournalStep
<1> QED BY <1>3, <1>4

LEMMA WriteIsStep ==
    ASSUME Inv, Inv', NEW t \in Threads, WriteSome(t)
    PROVE  JournalStep
<1> DEFINE New == DOMAIN file' \ DOMAIN file
<1>1. pc[t] = "writing" /\ UNCHANGED <<job, outcome>>
    BY DEF WriteSome
<1>2. PICK x \in Records : job[t] \in Jobs /\ x = job[t].rec /\ outcome[x] = "PENDING"
    BY <1>1 DEF Inv, CallsOwned, Busy, Jobs
<1>3. /\ DOMAIN file \subseteq DOMAIN file'
      /\ \A k \in DOMAIN file : file'[k] = file[k]
      /\ \A k \in New : file'[k].job = job[t]
      /\ \A k \in New : \/ file'[k].part = "body" /\ left[t] = Line
                        \/ file'[k].part = "end" /\ left'[t] = <<>>
      /\ left[t] # <<>>
      /\ left'[t] = <<>> => \E k \in New : file'[k].part = "end"
    BY <1>2, NewPieces DEF Inv
<1>4. ASSUME NEW y \in Records, y # x PROVE Breaks(y)' = Breaks(y)
    BY <1>2, <1>3, <1>4 DEF Breaks, At
<1>5. Breaks(x) = {}
    BY <1>1, <1>2, <1>3 DEF Inv, PiecesAccounted, Busy, Breaks
<1>6. Landed[x] = 0
    BY <1>2, <1>5, OneBreak
<1>7. \A y \in Records \ {x} : Landed'[y] = Landed[y]
    BY <1>4 DEF Landed
<1>8. CASE left'[t] = <<>>
  <2>1. PICK k \in New : file'[k].part = "end"
      BY <1>3, <1>8
  <2>2. k \in DOMAIN file' /\ file'[k].job.rec = x
      BY <1>2, <1>3, <2>1
  <2>3. Breaks(x)' = {k}
      BY <2>1, <2>2 DEF Inv, FileMade, Breaks, At
  <2>4. Landed'[x] = 1
      BY <1>2, <2>3, FS_Singleton DEF Landed
  <2>5. Landed' = [Landed EXCEPT ![x] = 1]
      BY <1>2, <1>7, <2>4 DEF Landed
  <2> QED BY <1>1, <1>2, <1>6, <2>5 DEF JournalStep
<1>9. CASE left'[t] # <<>>
  <2>1. Breaks(x)' = Breaks(x)
      BY <1>2, <1>3, <1>9 DEF Breaks, At
  <2>2. Landed' = Landed
      BY <1>4, <2>1 DEF Landed
  <2> QED BY <1>1, <2>2 DEF JournalStep
<1> QED BY <1>8, <1>9
LEMMA NextIsStep == Inv /\ Inv' /\ [Next]_vars => JournalStep
<1> SUFFICES ASSUME Inv, Inv', [Next]_vars PROVE JournalStep
    OBVIOUS
<1>1. ASSUME NEW t \in Threads, NEW r \in Recorders, NEW id \in Names, Record(t, r, id)
      PROVE  JournalStep
    BY <1>1, LandedStays DEF Record, IsNext, JournalStep
<1>2. ASSUME NEW t \in Threads, NEW id \in Names, RecordRefused(t, id) PROVE JournalStep
    BY <1>2, LandedStays DEF RecordRefused, IsNext, JournalStep
<1>3. ASSUME NEW t \in Threads, Step(t) PROVE JournalStep
  <2>1. CASE Acquire(t)
      BY <2>1, LandedStays DEF Acquire, Enter, JournalStep
  <2>2. CASE OpenFails(t)
      BY <2>2, LeaveIsStep DEF OpenFails
  <2>3. CASE WriteSome(t)
      BY <2>3, WriteIsStep
  <2>4. CASE WriteFails(t)
      BY <2>4, LandedStays DEF WriteFails, JournalStep
  <2>5. CASE WriteFailsAgain(t)
      BY <2>5, LeaveIsStep DEF WriteFailsAgain
  <2>6. CASE Close(t)
    <3>1. CASE failed[t]
        BY <2>6, <3>1, LeaveIsStep DEF Close
    <3>2. CASE ~failed[t]
        BY <2>6, <3>2, LeaveIsStep DEF Close
    <3> QED BY <3>1, <3>2
  <2> QED BY <1>3, <2>1, <2>2, <2>3, <2>4, <2>5, <2>6 DEF Step
<1>4. CASE Crash
    BY <1>4, LandedStays DEF Crash, JournalStep
<1>5. CASE UNCHANGED vars
    BY <1>5, LandedStays DEF vars, JournalStep
<1> QED BY <1>1, <1>2, <1>3, <1>4, <1>5 DEF Next, Call, Done

LEMMA InitIsInit == Init => J!Init
<1> SUFFICES ASSUME Init PROVE J!Init
    OBVIOUS
<1>1. \A x \in Records : Cardinality({k \in DOMAIN file : At(k).rec = x /\ file[k].part = "end"}) = 0
  <2>1. DOMAIN file = {}
      BY DEF Init
  <2>2. \A x \in Records : {k \in DOMAIN file : At(k).rec = x /\ file[k].part = "end"} = {}
      BY <2>1
  <2> QED BY <2>2, FS_EmptySet
<1> QED BY <1>1 DEF Init, J!Init

(* A record whose call returned is on disk once; a call that raised or     *)
(* died may have left its line, and no line lands after its call ended.    *)
THEOREM Refinement == Spec => ImplementsJournal
<1>1. Inv /\ Inv' /\ [Next]_vars => [J!Next]_(J!vars)
    BY NextIsStep, JournalStepIsNext
<1> QED BY <1>1, InitIsInit, Invariance, PTL DEF Spec, ImplementsJournal, J!Spec

-----------------------------------------------------------------------------
(* What the journal promises, and with it what the recorder does.          *)

JournalInv ==
    /\ Landed \in [Records -> {0, 1}] /\ outcome \in [Records -> Outcomes]
    /\ J!OnDiskOnce

(* What a step of the journal does to one record.                          *)
LEMMA JournalMoves ==
    ASSUME [J!Next]_(J!vars), JournalInv
    PROVE  JournalInv' /\ \A x \in Records :
              /\ outcome[x] \in {"RECORDED", "RAISED", "LOST"}
                    => outcome'[x] = outcome[x] /\ Landed'[x] = Landed[x]
              /\ Landed'[x] >= Landed[x]
<1> DEFINE Once == \A x \in Records :
                      /\ Landed[x] \in {0, 1}
                      /\ outcome[x] = "RECORDED" => Landed[x] = 1
                      /\ outcome[x] = "UNUSED" => Landed[x] = 0
           Moves == \A x \in Records :
                      /\ outcome[x] \in {"RECORDED", "RAISED", "LOST"}
                            => outcome'[x] = outcome[x] /\ Landed'[x] = Landed[x]
                      /\ Landed'[x] >= Landed[x]
           Typed == Landed \in [Records -> {0, 1}] /\ outcome \in [Records -> Outcomes]
<1>1. (J!OnDiskOnce <=> Once) /\ (J!OnDiskOnce' <=> Once')
    BY DEF J!OnDiskOnce, Landed, Breaks, At
<1>2. JournalStep
    BY DEF JournalStep, Landed, Breaks, At, J!Next, J!vars, J!Begin, J!Land, J!Answer,
           J!Raise, J!Die
<1>3. Typed /\ Once
    BY <1>1 DEF JournalInv
<1> HIDE DEF Landed
<1>4. Typed' /\ Once' /\ Moves
    BY <1>2, <1>3 DEF JournalStep, Outcomes
<1> QED BY <1>1, <1>4 DEF JournalInv

LEMMA JournalInvariance == J!Spec => []JournalInv
<1>1. J!Init => JournalInv
  <2> SUFFICES ASSUME J!Init PROVE JournalInv
      OBVIOUS
  <2>1. Landed = [x \in Records |-> 0] /\ outcome = [x \in Records |-> "UNUSED"]
      BY DEF J!Init, Landed, Breaks, At
  <2>2. J!OnDiskOnce
      BY <2>1 DEF J!OnDiskOnce, Landed, Breaks, At
  <2> HIDE DEF Landed
  <2> QED BY <2>1, <2>2 DEF JournalInv, Outcomes
<1>2. JournalInv /\ [J!Next]_(J!vars) => JournalInv'
    BY JournalMoves
<1> QED BY <1>1, <1>2, PTL DEF J!Spec

(* In the journal, a record is there once, and there if its call returned. *)
THEOREM JournalKeepsOne == J!Spec => [](J!OnDiskOnce)
<1>1. JournalInv => J!OnDiskOnce
    BY DEF JournalInv
<1> QED BY <1>1, JournalInvariance, PTL

(* In the journal, a call that has ended is over and its line stays.       *)
THEOREM JournalStands == J!Spec => J!EndedCallsStand
<1> DEFINE Moves == \A x \in Records :
                      /\ outcome[x] \in {"RECORDED", "RAISED", "LOST"}
                            => outcome'[x] = outcome[x] /\ Landed'[x] = Landed[x]
                      /\ Landed'[x] >= Landed[x]
<1>1. JournalInv /\ [J!Next]_(J!vars) => [Moves]_(J!vars)
    BY JournalMoves
<1> QED BY <1>1, JournalInvariance, PTL DEF J!Spec, J!EndedCallsStand, Landed, Breaks, At

(* The line of a call of record that returned is in the file, once,        *)
(* whatever threads, recorders, failed writes and crashes there were.      *)
THEOREM ReturnedIsOnDisk == Spec => [](J!OnDiskOnce)
BY Refinement, JournalKeepsOne, PTL DEF ImplementsJournal

(* When a call of record has ended, its line is there for good or will     *)
(* never be: nothing is flushed behind the back of the caller.             *)
THEOREM NothingLandsLate == Spec => J!EndedCallsStand
BY Refinement, JournalStands, PTL DEF ImplementsJournal

-----------------------------------------------------------------------------
(* How much a failure can cost, and what is on disk.                       *)

(* The text of a call that raised or died.                                 *)
TornLines ==
    {k \in DOMAIN file : file[k].part = "body" /\ outcome[At(k).rec] \in {"RAISED", "LOST"}}

(* The text of a call that returned, on a line no reader can use.          *)
SpoiltLines ==
    {k \in DOMAIN file :
        file[k].part = "body" /\ outcome[At(k).rec] = "RECORDED" /\ ~Intact(k)}

(* Through one recorder, no more records of calls that returned are lost   *)
(* to a reader than there are calls whose line was torn; and so none at    *)
(* all while no write fails and no process dies.                           *)
THEOREM DamageIsBounded ==
    ASSUME \A r, s \in Recorders : r = s
    PROVE  Spec => []( /\ IsFiniteSet(SpoiltLines) /\ IsFiniteSet(TornLines)
                       /\ Cardinality(SpoiltLines) <= Cardinality(TornLines) )
<1>1. ASSUME Inv, DamageIsLocal
      PROVE  /\ IsFiniteSet(SpoiltLines) /\ IsFiniteSet(TornLines)
             /\ Cardinality(SpoiltLines) <= Cardinality(TornLines)
  <2>1. /\ Len(file) \in Nat /\ DOMAIN file = 1..Len(file)
        /\ \A k \in DOMAIN file : At(k).via \in Recorders
      BY <1>1, FileIsSeq DEF Inv, Jobs
  <2>2. ASSUME NEW k \in SpoiltLines PROVE k - 1 \in TornLines
    <3>1. /\ k \in DOMAIN file /\ file[k].part = "body"
          /\ outcome[At(k).rec] = "RECORDED" /\ ~Intact(k)
        BY DEF SpoiltLines
    <3>2. k < Len(file) => At(k + 1).via = At(k).via
      <4>1. k < Len(file) => k + 1 \in DOMAIN file
          BY <2>1, <3>1
      <4> QED BY <2>1, <3>1, <4>1
    <3>3. k > 1 /\ file[k - 1].part = "body"
          /\ (\/ outcome[At(k - 1).rec] \in {"RAISED", "LOST"}
              \/ At(k - 1).via # At(k).via)
        BY <1>1, <3>1, <3>2 DEF DamageIsLocal
    <3>4. k - 1 \in DOMAIN file
        BY <2>1, <3>1, <3>3
    <3>5. At(k - 1).via = At(k).via
        BY <2>1, <3>1, <3>4
    <3> QED BY <3>3, <3>4, <3>5 DEF TornLines
  <2> DEFINE f == [k \in SpoiltLines |-> k - 1]
  <2>3. IsFiniteSet(DOMAIN file)
      BY <2>1, FS_Interval
  <2>4. TornLines \in SUBSET DOMAIN file /\ SpoiltLines \in SUBSET DOMAIN file
      BY DEF TornLines, SpoiltLines
  <2>5. \A k \in SpoiltLines : k \in Int
      BY <2>1, <2>4
  <2>6. f \in Injection(SpoiltLines, TornLines)
      BY <2>2, <2>5 DEF Injection, IsInjective
  <2>7. IsFiniteSet(TornLines)
      BY <2>3, <2>4, FS_Subset
  <2> HIDE DEF f
  <2> QED BY <2>6, <2>7, FS_Injection
<1> QED BY <1>1, Invariance, DamageBeside, PTL

(* Every id on disk is made of the characters of an identifier, but for    *)
(* one line break that may end it, and does not begin with a secret: what  *)
(* is left of OnlyIdsOnDisk.                                               *)
OnlyALineBreakMore ==
    \A k \in DOMAIN file : LET id == At(k).id IN
        /\ Len(id) \in 1..MaxIdLength /\ id[1] \in IdPieces \ {"sk-"}
        /\ \A n \in 1..Len(id) : id[n] \in IdPieces \/ (id[n] = "\n" /\ n = Len(id))

THEOREM IdsOnDisk == Spec => []OnlyALineBreakMore
<1>1. ASSUME NEW id \in Names, Admissible(id)
      PROVE  /\ Len(id) \in 1..MaxIdLength /\ id[1] \in IdPieces \ {"sk-"}
             /\ \A n \in 1..Len(id) : id[n] \in IdPieces \/ (id[n] = "\n" /\ n = Len(id))
  <2>1. id \in Seq(Pieces) /\ Len(id) \in Nat /\ DOMAIN id = 1..Len(id)
        /\ \A n \in 1..Len(id) : id[n] \in Pieces
      BY RecorderAssumption, LenProperties, ElementOfSeq
  <2>2. id # <<>> /\ Len(id) <= MaxIdLength /\ IdPattern(id) /\ id[1] # "sk-"
      BY <1>1 DEF Admissible, ValidateId
  <2>3. Len(id) # 0
      BY <2>1, <2>2, EmptySeq
  <2>4. Len(id) \in 1..MaxIdLength /\ 1 \in 1..Len(id)
      BY <2>1, <2>2, <2>3, SanitizeAssumption
  <2>5. CASE Range(id) \subseteq IdPieces
    <3>1. \A n \in 1..Len(id) : id[n] \in IdPieces
        BY <2>1, <2>5 DEF Range
    <3> QED BY <2>2, <2>4, <3>1
  <2>6. CASE Len(id) > 1 /\ Last(id) = "\n" /\ Range(Front(id)) \subseteq IdPieces
    <3>1. id[Len(id)] = "\n"
        BY <2>6 DEF Last
    <3>2. /\ Front(id) \in Seq(Pieces)
          /\ Len(Front(id)) = Len(id) - 1
          /\ \A n \in 1..(Len(id) - 1) : Front(id)[n] = id[n]
      <4>1. \A n \in 1..(Len(id) - 1) : id[n] \in Pieces
          BY <2>1
      <4> QED BY <2>1, <2>6, <4>1, SubSeqProperties DEF Front
    <3>3. DOMAIN Front(id) = 1..(Len(id) - 1)
        BY <3>2, LenProperties
    <3>4. \A n \in 1..(Len(id) - 1) : id[n] \in IdPieces
        BY <2>6, <3>2, <3>3 DEF Range
    <3>5. ASSUME NEW m \in Nat PROVE \A n \in 1..m : n \in 1..(m - 1) \/ n = m
        OBVIOUS
    <3>6. 1 \in 1..(Len(id) - 1) /\ Len(id) \in Nat
        BY <2>1, <2>6
    <3>7. id[1] \in IdPieces
        BY <3>4, <3>6
    <3>8. \A n \in 1..Len(id) : id[n] \in IdPieces \/ (id[n] = "\n" /\ n = Len(id))
        BY <3>1, <3>4, <3>5, <3>6
    <3> QED BY <2>2, <2>4, <3>7, <3>8
  <2> QED BY <2>2, <2>5, <2>6 DEF IdPattern
<1>2. Inv => OnlyALineBreakMore
  <2> SUFFICES ASSUME Inv, NEW k \in DOMAIN file
               PROVE  At(k).id \in Names /\ Admissible(At(k).id)
      BY <1>1 DEF OnlyALineBreakMore
  <2> QED BY FileIsSeq DEF Inv, FileMade, Jobs
<1> QED BY <1>2, Invariance, PTL
=============================================================================
