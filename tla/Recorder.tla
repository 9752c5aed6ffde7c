------------------------------ MODULE Recorder ------------------------------
(***************************************************************************)
(* moiras/evidence.py: EvidenceRecorder.record, called by several threads, *)
(* on one file, through one recorder or through several: the lock belongs  *)
(* to the recorder.  A process may die at any point; its file stays, and   *)
(* the next process appends to it.                                         *)
(*                                                                         *)
(* A record is a line, which reaches the file when the stream is closed:   *)
(* the operating system may take it in two pieces, the text ("body") and   *)
(* the line break ("end"), or fail before either.  Closing a text stream   *)
(* flushes it, and closing the buffer below flushes it again: what the     *)
(* first attempt could not write is tried once more, and the exception of  *)
(* the first attempt is raised whether or not the second one succeeds.     *)
(***************************************************************************)
EXTENDS Sanitize, FiniteSets

CONSTANTS Threads,
          Recorders,   \* EvidenceRecorder objects on the same destination
          Names,       \* the execution ids that records are made with
          NoThread,
          MaxRecords,  \* bound: calls of record, by all threads together
          MaxCrashes   \* bound: times the process dies

ASSUME RecorderAssumption ==
    /\ Threads # {} /\ Recorders # {}
    /\ MaxRecords \in Nat /\ MaxCrashes \in Nat
    /\ NoThread \notin Threads
    /\ Names \subseteq Seq(Pieces)

VARIABLES pc,       \* where each thread stands in record
          job,      \* the record it writes: [rec, via, id]
          left,     \* the pieces its stream still holds
          failed,   \* has an attempt to flush them failed?
          lock,     \* the holder of each recorder's lock
          file,     \* the pieces on disk
          outcome,  \* history: how the call for each record ended
          crashes

vars == <<pc, job, left, failed, lock, file, outcome, crashes>>

-----------------------------------------------------------------------------

Line == <<"body", "end">>

Outcomes == {"UNUSED", "PENDING", "RECORDED", "RAISED", "LOST"}
Records  == 1..MaxRecords

Jobs == [rec : Records, via : Recorders, id : Names]

Init ==
    /\ pc = [t \in Threads |-> "idle"]
    /\ job = [t \in Threads |-> NoThread]
    /\ left = [t \in Threads |-> <<>>]
    /\ failed = [t \in Threads |-> FALSE]
    /\ lock = [r \in Recorders |-> NoThread]
    /\ file = <<>>
    /\ outcome = [x \in Records |-> "UNUSED"]
    /\ crashes = 0

Goto(t, label) == pc' = [pc EXCEPT ![t] = label]

(* A thread makes the next record.  EvidenceRecord validates the id, and   *)
(* record sanitizes what it is about to write, both without the lock.      *)
IsNext(x) == outcome[x] = "UNUSED" /\ (x > 1 => outcome[x - 1] # "UNUSED")

Admissible(id) == ValidateId(id) /\ SanitizeValue({id})

Record(t, r, id) ==
    /\ pc[t] = "idle" /\ Admissible(id)
    /\ \E x \in Records :
          /\ IsNext(x)
          /\ outcome' = [outcome EXCEPT ![x] = "PENDING"]
          /\ job' = [job EXCEPT ![t] = [rec |-> x, via |-> r, id |-> id]]
    /\ Goto(t, "waiting")
    /\ UNCHANGED <<left, failed, lock, file, crashes>>

RecordRefused(t, id) ==
    /\ pc[t] = "idle" /\ ~Admissible(id)
    /\ \E x \in Records : IsNext(x) /\ outcome' = [outcome EXCEPT ![x] = "RAISED"]
    /\ UNCHANGED <<pc, job, left, failed, lock, file, crashes>>

(* Into the lock of the recorder.  The line fits the stream's buffer, so   *)
(* open and stream.write have no effect anybody sees, unless open fails.   *)
Enter(t) ==
    /\ lock' = [lock EXCEPT ![job[t].via] = t]
    /\ left' = [left EXCEPT ![t] = Line]
    /\ Goto(t, "writing")
    /\ UNCHANGED <<job, failed, file, outcome, crashes>>

(* Mutant: a thread does not wait for the lock.                            *)
Barge(t) == pc[t] = "waiting" /\ Enter(t)

Acquire(t) == pc[t] = "waiting" /\ lock[job[t].via] = NoThread /\ Enter(t)

(* The call ends, with its locals; both context managers are left.         *)
Finish(t, result) ==
    /\ outcome' = [outcome EXCEPT ![job[t].rec] = result]
    /\ job' = [job EXCEPT ![t] = NoThread]
    /\ left' = [left EXCEPT ![t] = <<>>]
    /\ failed' = [failed EXCEPT ![t] = FALSE]
    /\ Goto(t, "idle")
    /\ UNCHANGED <<file, crashes>>

Leave(t, result) == Finish(t, result) /\ lock' = [lock EXCEPT ![job[t].via] = NoThread]

(* Mutant: the exception of open leaves the lock held.                     *)
OpenFailsHolding(t) ==
    pc[t] = "writing" /\ left[t] = Line /\ ~failed[t] /\ Finish(t, "RAISED") /\ UNCHANGED lock

OpenFails(t) == pc[t] = "writing" /\ left[t] = Line /\ ~failed[t] /\ Leave(t, "RAISED")

(* Mutant: the wrong end of the buffer is dropped after a short write.     *)
WriteSomeKeepingHead(t) ==
    /\ pc[t] = "writing"
    /\ \E n \in 1..Len(left[t]) :
          /\ file' = file \o [k \in 1..n |-> [job |-> job[t], part |-> left[t][k]]]
          /\ left' = [left EXCEPT ![t] = SubSeq(@, 1, Len(@) - n)]
    /\ UNCHANGED <<pc, job, failed, lock, outcome, crashes>>

(* The operating system takes some of what is left.                        *)
WriteSome(t) ==
    /\ pc[t] = "writing"
    /\ \E n \in 1..Len(left[t]) :
          /\ file' = file \o [k \in 1..n |-> [job |-> job[t], part |-> left[t][k]]]
          /\ left' = [left EXCEPT ![t] = SubSeq(@, n + 1, Len(@))]
    /\ UNCHANGED <<pc, job, failed, lock, outcome, crashes>>

WriteFails(t) ==
    /\ pc[t] = "writing" /\ ~failed[t]
    /\ failed' = [failed EXCEPT ![t] = TRUE]
    /\ UNCHANGED <<pc, job, left, lock, file, outcome, crashes>>

(* Mutant: the exception is swallowed.                                     *)
WriteFailsSilently(t) == pc[t] = "writing" /\ failed[t] /\ Leave(t, "RECORDED")

WriteFailsAgain(t) == pc[t] = "writing" /\ failed[t] /\ Leave(t, "RAISED")

(* Mutant: a short write is taken for a complete one.                      *)
CloseShort(t) ==
    /\ pc[t] = "writing" /\ left[t] # Line
    /\ Leave(t, IF failed[t] THEN "RAISED" ELSE "RECORDED")

Close(t) ==
    /\ pc[t] = "writing" /\ left[t] = <<>>
    /\ Leave(t, IF failed[t] THEN "RAISED" ELSE "RECORDED")

(* The process dies; another one starts with new recorders.                *)
Crash ==
    /\ crashes < MaxCrashes
    /\ crashes' = crashes + 1
    /\ pc' = [t \in Threads |-> "idle"]
    /\ left' = [t \in Threads |-> <<>>]
    /\ lock' = [r \in Recorders |-> NoThread]
    /\ outcome' = [x \in Records |-> IF outcome[x] = "PENDING" THEN "LOST" ELSE outcome[x]]
    /\ job' = [t \in Threads |-> NoThread]
    /\ failed' = [t \in Threads |-> FALSE]
    /\ UNCHANGED file

Done == (\A x \in Records : outcome[x] \notin {"UNUSED", "PENDING"}) /\ UNCHANGED vars

Call(t) == \/ \E r \in Recorders, id \in Names : Record(t, r, id)
           \/ \E id \in Names : RecordRefused(t, id)

Step(t) == \/ Acquire(t) \/ OpenFails(t)
           \/ WriteSome(t) \/ WriteFails(t) \/ WriteFailsAgain(t) \/ Close(t)

Next == Crash \/ Done \/ \E t \in Threads : Call(t) \/ Step(t)

Spec == Init /\ [][Next]_vars

(* Every thread is scheduled inside a call; nobody has to make one.        *)
FairSpec == Spec /\ \A t \in Threads : WF_vars(Step(t))

-----------------------------------------------------------------------------
(* Properties.                                                             *)

TypeOK ==
    /\ pc \in [Threads -> {"idle", "waiting", "writing"}]
    /\ job \in [Threads -> Jobs \cup {NoThread}]
    /\ left \in [Threads -> {<<>>, <<"end">>, Line}]
    /\ failed \in [Threads -> BOOLEAN]
    /\ lock \in [Recorders -> Threads \cup {NoThread}]
    /\ file \in Seq([job : Jobs, part : {"body", "end"}])
    /\ outcome \in [Records -> Outcomes]
    /\ crashes \in 0..MaxCrashes

At(k) == file[k].job

(* A line is on disk, once, before its call returns, and never afterwards; *)
(* a call may raise for a line that is there.                              *)
J == INSTANCE Journal
        WITH landed <- [x \in Records |-> Cardinality({k \in DOMAIN file :
                            At(k).rec = x /\ file[k].part = "end"})]

ImplementsJournal == J!Spec

(* Threads that share a recorder never write into each other's lines,      *)
(* crashes and failed writes included.                                     *)
OneRecorderNeverInterleaves ==
    \A j, k, l \in DOMAIN file :
        j < k /\ k < l /\ At(j) = At(l) => At(k) = At(j) \/ At(k).via # At(j).via

(* What a reader of lines can use: the text of one record, and nothing     *)
(* else, between two line breaks.                                          *)
Intact(k) ==
    /\ file[k].part = "body"
    /\ k > 1 => file[k - 1].part = "end"
    /\ k < Len(file) /\ At(k + 1) = At(k)

(* A recorded line that cannot be used has its cause right beside it: the  *)
(* torn line of a call that did not return, directly before it, or a       *)
(* neighbour that came through another recorder.  So a torn line costs at  *)
(* most one other record.                                                  *)
DamageIsLocal ==
    \A k \in DOMAIN file :
        file[k].part = "body" /\ outcome[At(k).rec] = "RECORDED" =>
            \/ Intact(k)
            \/ /\ k > 1 /\ file[k - 1].part = "body"
               /\ \/ outcome[At(k - 1).rec] \in {"RAISED", "LOST"}
                  \/ At(k - 1).via # At(k).via
            \/ k < Len(file) /\ At(k + 1).via # At(k).via

(* Every call of record returns or raises.                                 *)
EveryRecordReturns == \A t \in Threads : pc[t] # "idle" ~> pc[t] = "idle"

-----------------------------------------------------------------------------
(* What the documentation says and the code does not do.                   *)

(* validate_id: "[A-Za-z0-9._:-]+ ... raises SanitizationError on anything *)
(* else": what is on disk was made with an identifier.                     *)
OnlyIdsOnDisk == \A k \in DOMAIN file : Range(At(k).id) \subseteq IdPieces
=============================================================================
