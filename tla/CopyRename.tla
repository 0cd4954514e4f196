----------------------------- MODULE CopyRename -----------------------------
(***************************************************************************)
(* grid_tools.gfal_copy_safe in its copy_rename mode: how every product    *)
(* leaves a job.  Several jobs may publish the same target at once (a      *)
(* watchdog resubmission racing the job it gave up on); each uploads to a  *)
(* name of its own beside the target, compares the upload's adler32 with   *)
(* the source's, renames it onto the target and looks whether the target   *)
(* is there.  Any step may fail, with or without having taken effect, and  *)
(* a job may be killed at any point.  repeat_until_success tries NRetries  *)
(* times; what a killed or exhausted upload leaves behind is never         *)
(* cleaned up.                                                             *)
(***************************************************************************)
EXTENDS Naturals

CONSTANTS
  Writers,        \* jobs publishing the same target
  Nobody,         \* author of a file that is not there
  Earlier,        \* author of the file an earlier production published
  NRetries,       \* repeat_until_success: n_retries
  SilentDamage,   \* TRUE: gfal-copy may report success for a damaged upload
  SourceSumFails  \* TRUE: gfal-stat or gfal-sum of the source may fail

ASSUME WritersAssumption ==
  /\ Nobody \notin Writers
  /\ Earlier \notin Writers
  /\ Nobody # Earlier
ASSUME NRetriesAssumption == NRetries \in Nat \ {0}
ASSUME FaultsAssumption == SilentDamage \in BOOLEAN /\ SourceSumFails \in BOOLEAN

VARIABLES
  target,    \* the file under the published name
  tmp,       \* the files under the upload names beside it
  pc,        \* next step of each writer's gfal_copy_safe
  attempt,   \* calls of download() that failed so far
  expected   \* whether the writer knows the source's adler32

vars == <<target, tmp, pc, attempt, expected>>

File == [by : Writers \union {Nobody, Earlier},
         content : {"none", "partial", "damaged", "whole"},
         verified : BOOLEAN]
Absent == [by |-> Nobody, content |-> "none", verified |-> FALSE]
Upload(w, c) == [by |-> w, content |-> c, verified |-> FALSE]

Running == {"clear", "copy", "copying", "sum", "rename", "confirm"}
Ended == {"done", "failed", "killed"}

TypeOK ==
  /\ target \in File
  /\ tmp \in [Writers -> File]
  /\ pc \in [Writers -> {"start"} \union Running \union Ended]
  /\ attempt \in [Writers -> 0..NRetries]
  /\ expected \in [Writers -> BOOLEAN]

Init ==
  /\ target \in {Absent, [by |-> Earlier, content |-> "whole", verified |-> TRUE]}
  /\ tmp = [w \in Writers |-> Absent]
  /\ pc = [w \in Writers |-> "start"]
  /\ attempt = [w \in Writers |-> 0]
  /\ expected = [w \in Writers |-> FALSE]

\* (Mutant: one upload name for all.)
SharedTmpSuffix(w) == CHOOSE x \in Writers : TRUE
\* copy_rename_tmp_suffix: pid and a random part, so the name is the writer's own.
copy_rename_tmp_suffix(w) == w

Goto(w, step) == pc' = [pc EXCEPT ![w] = step]

\* (Mutants: one attempt too many; attempts that are not counted.)
FailAttemptLate(w) ==
  /\ attempt' = [attempt EXCEPT ![w] = @ + 1]
  /\ Goto(w, IF attempt[w] = NRetries THEN "failed" ELSE "clear")
FailAttemptUncounted(w) == Goto(w, "clear") /\ UNCHANGED attempt

\* An exception in download(): repeat_until_success calls it again, or gives up.
FailAttempt(w) ==
  /\ attempt' = [attempt EXCEPT ![w] = @ + 1]
  /\ Goto(w, IF attempt[w] + 1 = NRetries THEN "failed" ELSE "clear")

\* The source's checksum; a failure is swallowed and leaves it unknown.
ReadSourceSum(w) ==
  /\ pc[w] = "start"
  /\ \E known \in {TRUE} \union (IF SourceSumFails THEN {FALSE} ELSE {}) :
        expected' = [expected EXCEPT ![w] = known]
  /\ Goto(w, "clear")
  /\ UNCHANGED <<target, tmp, attempt>>

\* (Mutant: the target is removed to make room, as in plain overwriting.)
ClearTarget(w) ==
  /\ pc[w] = "clear" /\ Goto(w, "copy")
  /\ target' = Absent
  /\ UNCHANGED <<tmp, attempt, expected>>

\* if gfal_exists(tmp): gfal_rm(tmp).  A stat that fails reads as "not there".
ClearUpload(w) ==
  /\ pc[w] = "clear"
  /\ \/ Goto(w, "copy") /\ UNCHANGED <<tmp, attempt>>
     \/ /\ tmp[copy_rename_tmp_suffix(w)] # Absent
        /\ \/ tmp' = [tmp EXCEPT ![copy_rename_tmp_suffix(w)] = Absent] /\ Goto(w, "copy") /\ UNCHANGED attempt
           \/ FailAttempt(w) /\ UNCHANGED tmp
  /\ UNCHANGED <<target, expected>>

\* gfal-copy without --force: it does not overwrite what is already there.
StartCopy(w) ==
  /\ pc[w] = "copy"
  /\ IF tmp[copy_rename_tmp_suffix(w)] = Absent
       THEN /\ tmp' = [tmp EXCEPT ![copy_rename_tmp_suffix(w)] = Upload(w, "partial")]
            /\ Goto(w, "copying")
            /\ UNCHANGED attempt
       ELSE FailAttempt(w) /\ UNCHANGED tmp
  /\ UNCHANGED <<target, expected>>

\* gfal-copy ends: complete, damaged but reported complete, or with an error
\* that leaves a fragment or nothing.
EndCopy(w) ==
  /\ pc[w] = "copying"
  /\ \/ /\ \E c \in {"whole"} \union (IF SilentDamage THEN {"damaged"} ELSE {}) :
              tmp' = [tmp EXCEPT ![copy_rename_tmp_suffix(w)] = Upload(w, c)]
        /\ Goto(w, IF expected[w] THEN "sum" ELSE "rename")
        /\ UNCHANGED attempt
     \/ /\ tmp' \in {tmp, [tmp EXCEPT ![copy_rename_tmp_suffix(w)] = Absent]}
        /\ FailAttempt(w)
  /\ UNCHANGED <<target, expected>>

\* (Mutant: the upload's checksum is read and not compared.)
CheckSumUncompared(w) ==
  /\ pc[w] = "sum"
  /\ tmp' = [tmp EXCEPT ![copy_rename_tmp_suffix(w)].verified = TRUE]
  /\ Goto(w, "rename")
  /\ UNCHANGED <<target, attempt, expected>>

\* gfal_sum of the upload, compared with the source's.
CheckSum(w) ==
  /\ pc[w] = "sum"
  /\ \/ /\ tmp[copy_rename_tmp_suffix(w)].content = "whole"
        /\ tmp' = [tmp EXCEPT ![copy_rename_tmp_suffix(w)].verified = TRUE]
        /\ Goto(w, "rename")
        /\ UNCHANGED attempt
     \/ FailAttempt(w) /\ UNCHANGED tmp
  /\ UNCHANGED <<target, expected>>

Replace(w) ==
  /\ target' = tmp[copy_rename_tmp_suffix(w)]
  /\ tmp' = [tmp EXCEPT ![copy_rename_tmp_suffix(w)] = Absent]

\* gfal-rename: done; failed; or done with the reply lost.
Rename(w) ==
  /\ pc[w] = "rename"
  /\ tmp[copy_rename_tmp_suffix(w)] # Absent
  /\ \/ Replace(w) /\ Goto(w, "confirm") /\ UNCHANGED attempt
     \/ Replace(w) /\ FailAttempt(w)
     \/ FailAttempt(w) /\ UNCHANGED <<target, tmp>>
  /\ UNCHANGED expected

\* gfal_exists(target), which may miss a target that is there.
Confirm(w) ==
  /\ pc[w] = "confirm"
  /\ \/ target # Absent /\ Goto(w, "done") /\ UNCHANGED attempt
     \/ FailAttempt(w)
  /\ UNCHANGED <<target, tmp, expected>>

\* The job is killed: walltime, crab kill, a node that dies.
Kill(w) ==
  /\ pc[w] \notin Ended
  /\ Goto(w, "killed")
  /\ UNCHANGED <<target, tmp, attempt, expected>>

gfal_copy_safe(w) ==
  \/ ReadSourceSum(w) \/ ClearUpload(w) \/ StartCopy(w) \/ EndCopy(w)
  \/ CheckSum(w) \/ Rename(w) \/ Confirm(w)

Finished == (\A w \in Writers : pc[w] \in Ended) /\ UNCHANGED vars

Next == (\E w \in Writers : gfal_copy_safe(w) \/ Kill(w)) \/ Finished

Spec == Init /\ [][Next]_vars
\* The gfal commands return (they carry timeouts), so a running call goes on.
FairSpec == Spec /\ \A w \in Writers : WF_vars(gfal_copy_safe(w))

-----------------------------------------------------------------------------
(***************************************************************************)
(* Properties.                                                             *)
(***************************************************************************)

\* The published name never shows an upload that is still running or was cut
\* short, whichever jobs race for it and whenever they die.
TargetNeverPartial == target.content # "partial"

\* gfal-copy may report success for a damaged upload; such a file becomes the
\* product only if its own job could not read the source's checksum.
ChecksumProtectsTarget ==
  target.content = "damaged" => target.by \in Writers /\ ~expected[target.by]

\* A job that reported success has left a published file, and no other job's
\* retries or failures take it away again.
SuccessIsPublished == (\E w \in Writers : pc[w] = "done") => target # Absent

\* A published file is replaced, never withdrawn: no step leaves the target
\* name empty once it was taken (law_gfal.filecopy relies on it for the merged
\* nano and the records).
NeverWithdrawn == [][target # Absent => target' # Absent]_vars

\* Every call that is not killed comes to an end, in success or in an error.
EveryCallEnds == \A w \in Writers : <>(pc[w] \in Ended)

\* What makes the above inductive: a call that goes on has attempts left, the
\* file a writer uploads, verifies or renames is its own, an unverified upload
\* of a job that knows the checksum is never renamed, and a job publishes
\* nothing before it looked for that checksum.
AttemptsLeft == \A w \in Writers : pc[w] \notin Ended => attempt[w] < NRetries
OwnUpload ==
  \A w \in Writers :
    /\ pc[w] \in {"copying", "sum", "rename"} => tmp[w].by = w
    /\ pc[w] \in {"sum", "rename"} => tmp[w].content \in {"damaged", "whole"}
    /\ pc[w] = "rename" /\ expected[w] => tmp[w].content = "whole"
StartUnpublished == \A w \in Writers : pc[w] = "start" => target.by # w /\ tmp[w] = Absent
IInv == TypeOK /\ AttemptsLeft /\ OwnUpload /\ StartUnpublished /\ TargetNeverPartial
          /\ ChecksumProtectsTarget /\ SuccessIsPublished

\* The refinement: the call's progress as the promise sees it.
Progress(step) ==
  CASE step = "start" -> "idle"
    [] step \in Running \ {"confirm"} -> "busy"
    [] step = "confirm" -> "committed"
    [] step = "done" -> "ok"
    [] step = "failed" -> "error"
    [] OTHER -> "dead"
\* A partial target would be nobody's complete file: no value of the register.
Published == IF target.content = "partial" THEN "torn" ELSE target.by

AP == INSTANCE AtomicPublish WITH register <- Published,
                                  call <- [w \in Writers |-> Progress(pc[w])]
\* Publishing by rename implements the atomic register.
ImplementsAtomicPublish == AP!ASpec
=============================================================================
