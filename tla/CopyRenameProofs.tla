-------------------------- MODULE CopyRenameProofs --------------------------
(***************************************************************************)
(* Proofs about CopyRename, for every set of writers and number of         *)
(* retries, and whatever faults occur.                                     *)
(***************************************************************************)
EXTENDS CopyRename, TLAPS

\* The files the actions build are files.
LEMMA FileTypes ==
  /\ Absent \in File
  /\ [by |-> Earlier, content |-> "whole", verified |-> TRUE] \in File
  /\ \A w \in Writers : \A c \in {"partial", "damaged", "whole"} : Upload(w, c) \in File
  /\ \A f \in File : [f EXCEPT !.verified = TRUE] \in File
BY DEF File, Absent, Upload

\* Before any call, nothing is uploaded and the target is whole or not there.
LEMMA InitIInv == Init => IInv
<1> SUFFICES ASSUME Init PROVE IInv
  OBVIOUS
<1> USE WritersAssumption, NRetriesAssumption DEF Init
<1>1. TypeOK
  <2>1. target \in File
    BY FileTypes
  <2>2. tmp \in [Writers -> File]
    BY FileTypes
  <2> QED
    BY <2>1, <2>2 DEF TypeOK
<1>2. AttemptsLeft
  BY DEF AttemptsLeft
<1>3. OwnUpload
  BY DEF OwnUpload
<1>4. TargetNeverPartial /\ ChecksumProtectsTarget
  BY DEF TargetNeverPartial, ChecksumProtectsTarget, Absent
<1>5. SuccessIsPublished /\ StartUnpublished
  BY DEF SuccessIsPublished, StartUnpublished, Absent
<1> QED
  BY <1>1, <1>2, <1>3, <1>4, <1>5 DEF IInv

\* A step of one writer's call keeps every variable in its type.
LEMMA CallTypeOK ==
  ASSUME TypeOK, AttemptsLeft, NEW w \in Writers, gfal_copy_safe(w)
  PROVE  TypeOK' /\ AttemptsLeft'
<1> USE NRetriesAssumption, FileTypes
      DEF TypeOK, AttemptsLeft, Running, Ended, Goto, FailAttempt, copy_rename_tmp_suffix
<1>1. CASE ReadSourceSum(w)
  BY <1>1 DEF ReadSourceSum
<1>2. CASE ClearUpload(w)
  BY <1>2 DEF ClearUpload
<1>3. CASE StartCopy(w)
  BY <1>3 DEF StartCopy
<1>4. CASE EndCopy(w)
  BY <1>4 DEF EndCopy
<1>5. CASE CheckSum(w)
  BY <1>5 DEF CheckSum
<1>6. CASE Rename(w)
  BY <1>6 DEF Rename, Replace
<1>7. CASE Confirm(w)
  BY <1>7 DEF Confirm
<1> QED
  BY <1>1, <1>2, <1>3, <1>4, <1>5, <1>6, <1>7 DEF gfal_copy_safe

\* Nor does it touch what another writer uploads, and it renames only a
\* finished upload of its own, verified whenever the checksum is known.
LEMMA CallOwnUpload ==
  ASSUME TypeOK, OwnUpload, NEW w \in Writers, gfal_copy_safe(w)
  PROVE  OwnUpload'
<1> USE DEF TypeOK, OwnUpload, Goto, FailAttempt, copy_rename_tmp_suffix
<1>1. CASE ReadSourceSum(w)
  BY <1>1 DEF ReadSourceSum
<1>2. CASE ClearUpload(w)
  BY <1>2 DEF ClearUpload
<1>3. CASE StartCopy(w)
  BY <1>3 DEF StartCopy, Upload
<1>4. CASE EndCopy(w)
  BY <1>4 DEF EndCopy, Upload
<1>5. CASE CheckSum(w)
  <2>1. tmp'[w].by = tmp[w].by /\ tmp'[w].content = tmp[w].content
    BY <1>5 DEF CheckSum, File
  <2> QED
    BY <1>5, <2>1 DEF CheckSum
<1>6. CASE Rename(w)
  BY <1>6 DEF Rename, Replace
<1>7. CASE Confirm(w)
  BY <1>7 DEF Confirm
<1> QED
  BY <1>1, <1>2, <1>3, <1>4, <1>5, <1>6, <1>7 DEF gfal_copy_safe

\* Until a job looked for the source's checksum it has uploaded and published
\* nothing, so learning or missing it there breaks no promise.
LEMMA CallStart ==
  ASSUME TypeOK, OwnUpload, StartUnpublished, NEW w \in Writers, gfal_copy_safe(w)
  PROVE  StartUnpublished'
<1> USE DEF TypeOK, OwnUpload, StartUnpublished, Goto, FailAttempt, copy_rename_tmp_suffix
<1>1. CASE ReadSourceSum(w)
  BY <1>1 DEF ReadSourceSum
<1>2. CASE ClearUpload(w)
  BY <1>2 DEF ClearUpload
<1>3. CASE StartCopy(w)
  BY <1>3 DEF StartCopy
<1>4. CASE EndCopy(w)
  BY <1>4 DEF EndCopy
<1>5. CASE CheckSum(w)
  BY <1>5 DEF CheckSum
<1>6. CASE Rename(w)
  BY <1>6 DEF Rename, Replace
<1>7. CASE Confirm(w)
  BY <1>7 DEF Confirm
<1> QED
  BY <1>1, <1>2, <1>3, <1>4, <1>5, <1>6, <1>7 DEF gfal_copy_safe

\* What the published name promises.
TargetInv == TargetNeverPartial /\ ChecksumProtectsTarget /\ SuccessIsPublished

\* Only Rename changes the target, and what it renames satisfies TargetInv.
LEMMA CallTargetInv ==
  ASSUME IInv, NEW w \in Writers, gfal_copy_safe(w)
  PROVE  TargetInv'
<1> USE WritersAssumption DEF IInv, TypeOK, TargetInv, TargetNeverPartial,
      ChecksumProtectsTarget, SuccessIsPublished, Goto, FailAttempt, copy_rename_tmp_suffix
<1>1. CASE ReadSourceSum(w)
  <2>1. \A v \in Writers : target.content = "damaged" /\ target.by = v => v # w
    BY <1>1 DEF ReadSourceSum, StartUnpublished
  <2> QED
    BY <1>1, <2>1 DEF ReadSourceSum
<1>2. CASE ClearUpload(w)
  BY <1>2 DEF ClearUpload
<1>3. CASE StartCopy(w)
  BY <1>3 DEF StartCopy
<1>4. CASE EndCopy(w)
  BY <1>4 DEF EndCopy
<1>5. CASE CheckSum(w)
  BY <1>5 DEF CheckSum
<1>6. CASE Rename(w)
  BY <1>6 DEF Rename, Replace, OwnUpload, Absent
<1>7. CASE Confirm(w)
  BY <1>7 DEF Confirm
<1> QED
  BY <1>1, <1>2, <1>3, <1>4, <1>5, <1>6, <1>7 DEF gfal_copy_safe

\* A killed job leaves the storage as it is.
LEMMA KillIInv == ASSUME IInv, NEW w \in Writers, Kill(w) PROVE IInv'
BY DEF IInv, TypeOK, AttemptsLeft, OwnUpload, TargetNeverPartial, ChecksumProtectsTarget,
       SuccessIsPublished, Kill, Goto, Ended, StartUnpublished

\* Every step of every job preserves the invariant.
LEMMA StepIInv == IInv /\ [Next]_vars => IInv'
<1> SUFFICES ASSUME IInv, [Next]_vars PROVE IInv'
  OBVIOUS
<1>1. ASSUME NEW w \in Writers, gfal_copy_safe(w) PROVE IInv'
  BY <1>1, CallTypeOK, CallOwnUpload, CallTargetInv, CallStart DEF IInv, TargetInv
<1>2. ASSUME NEW w \in Writers, Kill(w) PROVE IInv'
  BY <1>2, KillIInv
<1>3. CASE UNCHANGED vars
  BY <1>3 DEF vars, IInv, TypeOK, AttemptsLeft, OwnUpload, TargetNeverPartial,
              ChecksumProtectsTarget, SuccessIsPublished, StartUnpublished
<1> QED
  BY <1>1, <1>2, <1>3 DEF Next, Finished

\* The invariant of gfal_copy_safe, types included, for any number of jobs and
\* of attempts.
THEOREM InductiveInvariant == Spec => []IInv
BY InitIInv, StepIInv, PTL DEF Spec

\* A call makes at most NRetries attempts, and the files are what they are
\* taken for.
THEOREM TypeCorrect == Spec => []TypeOK
<1>1. IInv => TypeOK
  BY DEF IInv
<1> QED
  BY <1>1, InductiveInvariant, PTL

\* The published name never carries an upload that is running or was cut
\* short.
THEOREM SafePublication == Spec => []TargetNeverPartial
<1>1. IInv => TargetNeverPartial
  BY DEF IInv
<1> QED
  BY <1>1, InductiveInvariant, PTL

\* Nor a damaged one, unless its job could not read the source's checksum.
THEOREM DamageIsCaught == Spec => []ChecksumProtectsTarget
<1>1. IInv => ChecksumProtectsTarget
  BY DEF IInv
<1> QED
  BY <1>1, InductiveInvariant, PTL

\* A call that reported success has left a published file, whatever the other
\* calls do.
THEOREM SuccessStays == Spec => []SuccessIsPublished
<1>1. IInv => SuccessIsPublished
  BY DEF IInv
<1> QED
  BY <1>1, InductiveInvariant, PTL

\* No step of any job leaves the target name empty once it was taken.
THEOREM PublishedStays == Spec => NeverWithdrawn
<1>1. IInv /\ [Next]_vars => [target # Absent => target' # Absent]_vars
  <2> SUFFICES ASSUME IInv, Next, target # Absent PROVE target' # Absent
    BY DEF vars
  <2>1. ASSUME NEW w \in Writers, Rename(w) PROVE target' # Absent
    BY <2>1, WritersAssumption
       DEF Rename, Replace, IInv, OwnUpload, Absent, copy_rename_tmp_suffix
  <2>2. ASSUME NEW w \in Writers, gfal_copy_safe(w), ~Rename(w) PROVE target' = target
    BY <2>2 DEF gfal_copy_safe, ReadSourceSum, ClearUpload, StartCopy, EndCopy, CheckSum, Confirm
  <2> QED
    BY <2>1, <2>2 DEF Next, Kill, Finished, vars
<1> QED
  BY <1>1, InductiveInvariant, PTL DEF Spec, NeverWithdrawn

-----------------------------------------------------------------------------
(***************************************************************************)
(* The refinement: publishing by rename is an atomic register.             *)
(***************************************************************************)

Calls == [w \in Writers |-> Progress(pc[w])]

\* Moving one writer's program counter moves that writer's abstract call.
LEMMA CallsMove ==
  ASSUME TypeOK, NEW w \in Writers, NEW s, Goto(w, s)
  PROVE  Calls' = [Calls EXCEPT ![w] = Progress(s)]
BY DEF TypeOK, Goto, Calls

\* How far a call is, step by step.
LEMMA ProgressValues ==
  /\ Progress("start") = "idle"
  /\ \A s \in {"clear", "copy", "copying", "sum", "rename"} : Progress(s) = "busy"
  /\ Progress("confirm") = "committed"
  /\ Progress("done") = "ok" /\ Progress("failed") = "error" /\ Progress("killed") = "dead"
BY DEF Progress, Running

\* Within a call that stays busy the abstract state does not change.
LEMMA BusyStutters ==
  ASSUME TypeOK, NEW w \in Writers, Calls[w] = "busy", UNCHANGED target,
         NEW s \in {"clear", "copy", "copying", "sum", "rename"}, Goto(w, s)
  PROVE  UNCHANGED <<Published, Calls>>
<1>1. Calls' = [Calls EXCEPT ![w] = "busy"]
  BY CallsMove, ProgressValues
<1>2. Calls' = Calls
  BY <1>1 DEF Calls
<1> QED
  BY <1>2 DEF Published

\* A failed attempt starts over or ends the call.
LEMMA FailGoto ==
  ASSUME NEW w \in Writers, FailAttempt(w)
  PROVE  \E s \in {"clear", "failed"} : Goto(w, s)
BY DEF FailAttempt

\* A failed attempt leaves the call busy or ends it in an error.
LEMMA FailIsBusyOrError ==
  ASSUME TypeOK, NEW w \in Writers, FailAttempt(w)
  PROVE  \E r \in {"busy", "error"} : Calls' = [Calls EXCEPT ![w] = r]
BY FailGoto, CallsMove, ProgressValues

\* A step of a call is a step of the register or none.
LEMMA RefineCall ==
  ASSUME IInv, NEW w \in Writers, gfal_copy_safe(w)
  PROVE  [AP!ANext]_<<Published, Calls>>
<1> USE DEF Calls
<1>0. TypeOK
  BY DEF IInv
<1>1. CASE ReadSourceSum(w)
  <2>1. Calls[w] = "idle" /\ Calls' = [Calls EXCEPT ![w] = "busy"] /\ Published' = Published
    BY <1>0, <1>1, CallsMove, ProgressValues DEF ReadSourceSum, Published
  <2> QED
    BY <2>1 DEF AP!ANext, AP!Call, AP!Step
<1>2. ASSUME pc[w] \in {"clear", "copy", "copying", "sum", "rename"}, UNCHANGED target, FailAttempt(w)
      PROVE  [AP!ANext]_<<Published, Calls>>
  <2>1. Calls[w] = "busy" /\ Published' = Published
    BY <1>2, ProgressValues DEF Published
  <2>2. CASE Calls' = [Calls EXCEPT ![w] = "busy"]
    <3>1. Calls' = Calls
      BY <2>1, <2>2
    <3> QED
      BY <2>1, <3>1
  <2>3. CASE Calls' = [Calls EXCEPT ![w] = "error"]
    BY <2>1, <2>3 DEF AP!ANext, AP!GiveUp, AP!Step
  <2> QED
    BY <1>0, <1>2, <2>2, <2>3, FailIsBusyOrError
<1>3. ASSUME pc[w] \in {"clear", "copy", "copying", "sum", "rename"}, UNCHANGED target,
             NEW s \in {"clear", "copy", "copying", "sum", "rename"}, Goto(w, s)
      PROVE  [AP!ANext]_<<Published, Calls>>
  BY <1>0, <1>3, BusyStutters, ProgressValues
<1>4. CASE ClearUpload(w)
  BY <1>4, <1>2, <1>3 DEF ClearUpload
<1>5. CASE StartCopy(w)
  BY <1>5, <1>2, <1>3 DEF StartCopy
<1>6. CASE EndCopy(w)
  BY <1>6, <1>2, <1>3 DEF EndCopy
<1>7. CASE CheckSum(w)
  BY <1>7, <1>2, <1>3 DEF CheckSum
<1>8. CASE Rename(w)
  <2>1. Calls[w] = "busy"
    BY <1>8, ProgressValues DEF Rename
  <2>2. CASE Replace(w)
    <3>1. Published' = w
      BY <1>0, <1>8, <2>2 DEF Rename, Replace, Published, IInv, OwnUpload, copy_rename_tmp_suffix
    <3>2. CASE Goto(w, "confirm")
      <4>1. Calls' = [Calls EXCEPT ![w] = "committed"]
        BY <1>0, <3>2, CallsMove, ProgressValues
      <4> QED
        BY <2>1, <3>1, <4>1 DEF AP!ANext, AP!Commit, AP!Step
    <3>3. CASE FailAttempt(w)
      <4>1. \E r \in {"busy", "error"} : Calls' = [Calls EXCEPT ![w] = r]
        BY <1>0, <3>3, FailIsBusyOrError
      <4> QED
        BY <2>1, <3>1, <4>1 DEF AP!ANext, AP!CommitUnacknowledged, AP!Step
    <3> QED
      BY <1>8, <2>2, <3>2, <3>3 DEF Rename
  <2>3. CASE ~Replace(w)
    BY <1>8, <2>3, <1>2 DEF Rename
  <2> QED
    BY <2>2, <2>3
<1>9. CASE Confirm(w)
  <2>1. Calls[w] = "committed" /\ Published' = Published
    BY <1>9, ProgressValues DEF Confirm, Published
  <2>2. \E r \in {"ok", "busy", "error"} : Calls' = [Calls EXCEPT ![w] = r]
    <3>1. CASE Goto(w, "done")
      <4>1. Calls' = [Calls EXCEPT ![w] = "ok"]
        BY <1>0, <3>1, CallsMove, ProgressValues
      <4> QED
        BY <4>1
    <3>2. CASE FailAttempt(w)
      <4>1. \E r \in {"busy", "error"} : Calls' = [Calls EXCEPT ![w] = r]
        BY <1>0, <3>2, FailIsBusyOrError
      <4> QED
        BY <4>1
    <3> QED
      BY <1>9, <3>1, <3>2 DEF Confirm
  <2> QED
    BY <2>1, <2>2 DEF AP!ANext, AP!Confirm, AP!Step
<1> QED
  BY <1>1, <1>4, <1>5, <1>6, <1>7, <1>8, <1>9 DEF gfal_copy_safe

\* A killed job is a writer that dies.
LEMMA RefineKill ==
  ASSUME IInv, NEW w \in Writers, Kill(w)
  PROVE  AP!ANext
<1>1. Calls[w] \in {"idle", "busy", "committed"}
  BY ProgressValues DEF IInv, TypeOK, Kill, Calls, Running, Ended
<1>2. Calls' = [Calls EXCEPT ![w] = "dead"] /\ Published' = Published
  BY CallsMove, ProgressValues DEF IInv, Kill, Published
<1> QED
  BY <1>1, <1>2 DEF AP!ANext, AP!Die, AP!Step, Calls

\* gfal_copy_safe in copy_rename mode implements the atomic register: for any
\* number of jobs racing for one target, failing and dying anywhere.
THEOREM Refinement == Spec => ImplementsAtomicPublish
<1>1. Init => AP!AInit
  BY ProgressValues DEF Init, Absent, Published, AP!AInit
<1>2. IInv /\ [Next]_vars => [AP!ANext]_<<Published, Calls>>
  <2> SUFFICES ASSUME IInv, [Next]_vars PROVE [AP!ANext]_<<Published, Calls>>
    OBVIOUS
  <2>1. CASE UNCHANGED vars
    BY <2>1 DEF vars, Published, Calls
  <2> QED
    BY <2>1, RefineCall, RefineKill DEF Next, Finished
<1> QED
  BY <1>1, <1>2, InductiveInvariant, PTL DEF Spec, ImplementsAtomicPublish, AP!ASpec, AP!avars, Calls
=============================================================================
